---- MODULE Spec2Model ----
(***************************************************************************)
(* A model of the gold-price distribution service: the rolling histories, *)
(* the versioned snapshot cache, the rate limiter, the abuse guard and    *)
(* the broadcast hub with its per-connection duties.                      *)
(*                                                                         *)
(* One module holds several specifications over the same variables; each  *)
(* one runs the operations of one component and leaves the rest alone:    *)
(*   SpecHist   the two producers appending to the rolling histories      *)
(*   SpecRL     RateLimiter::check, one call at a time                    *)
(*   SpecGuard  is_ip_blocked / block_ip / record_failed_attempt          *)
(*   SpecCache  get_cached_state step by step, with concurrent mutators   *)
(*   SpecWs     handle_ws connections, the broadcast channel, heartbeat   *)
(*   SpecReq    requests through security_middleware and the router       *)
(*   SpecSet    set_limit step by step, run by concurrent requests        *)
(*   SpecSweep  RateLimiter::check and its sweep, step by step            *)
(*   SpecBan    is_ip_blocked and record_failed_attempt, step by step     *)
(***************************************************************************)
EXTENDS Integers, Sequences, FiniteSets, Bags, TLC

\* ------------------------------------------------------------ config.rs
MAX_HISTORY == 1441
MAX_USD_HISTORY == 11
MAX_CONNECTIONS == 500
STATE_CACHE_TTL_MS == 20
MIN_LIMIT == 0
MAX_LIMIT == 88888
RATE_LIMIT_SECONDS == 5
MAX_FAILED_ATTEMPTS == 5
BLOCK_DURATION_SECS == 300
RATE_LIMIT_WINDOW == 60
RATE_LIMIT_MAX_REQUESTS == 60
RATE_LIMIT_STRICT_MAX == 120
HEARTBEAT_INTERVAL_SECS == 15
WS_TIMEOUT_SECS == 45
\* literals of the code
CLEANUP_INTERVAL == 30
FAILED_WINDOW == 60
SHOWN_LIMIT == 5000
CHANNEL_CAPACITY == 256
INITIAL_LIMIT == 8
WIB_OFFSET == 25200
DAY_SECS == 86400

\* ------------------------------------------------------------ bounds
\* epoch second and monotonic millisecond at which the runs start
StartTime == 1000
\* appends each producer makes in a run of SpecHist
MaxAppends == 3
\* checks of one key in a sequence, and the seconds a run of SpecRL spans
MaxChecks == 122
MaxRLSpan == 120
\* the longest failed-attempt record that takes one more attempt, and the
\* seconds a run of SpecGuard spans
MaxFailedLen == 5
MaxGuardSpan == 360
MaxMutations == 2
MaxReads == 1
MaxCacheInstant == 20
MaxForwards == 2
MaxWsBroadcasts == 1
MaxWsSpan == 15
\* the seconds a run of SpecReq spans
MaxReqSpan == 300
\* the requests each task of SpecSet makes, and the seconds its runs span
MaxSets == 2
MaxSetSpan == 6
\* the checks each task of SpecSweep makes, and the seconds its runs span
MaxSweepChecks == 2
MaxSweepSpan == 60
\* the requests each task of SpecBan makes, and the seconds its runs span
MaxBanReqs == 3
MaxBanSpan == 300

VARIABLES
  \* AppState (state.rs)
  history, usd_idr_history, last_buy, has_last_buy, shown_updates,
  limit_bulan, last_successful_call, state_cache, cache_version,
  blocked_ips, failed_attempts,
  \* RateLimiter (rate_limiter.rs)
  requests, last_cleanup,
  \* WsManager (ws_manager.rs)
  connection_count, tx,
  \* the clocks: SystemTime in seconds, Instant in milliseconds
  now, instant,
  \* history of the run, kept for the properties only
  appended, ret, rl_seq, ban_src,
  \* the requests that security_middleware has passed on and whose handler
  \* has not run yet: how many of each (a bag)
  pending,
  \* the tasks that run get_cached_state step by step: each one's place and
  \* locals, and what the properties need to know about the calls made
  task, cg,
  \* the websocket connections: handle_ws and its two spawned tasks for each
  \* connection followed, the number of other established connections, and
  \* whether the heartbeat's sleep has ended
  conn, bg, hb_due

stateVars == <<history, usd_idr_history, last_buy, has_last_buy, shown_updates>>
configVars == <<limit_bulan, last_successful_call>>
cacheVars == <<state_cache, cache_version>>
guardVars == <<blocked_ips, failed_attempts>>
rlVars == <<requests, last_cleanup>>
wsVars == <<connection_count, tx>>
clockVars == <<now, instant>>
connVars == <<conn, bg, hb_due>>
concVars == <<task, cg, connVars>>
vars == <<stateVars, configVars, cacheVars, guardVars, rlVars, wsVars,
          clockVars, appended, ret, rl_seq, ban_src, pending, concVars>>

\* ------------------------------------------------------------ helpers
None == "none"
\* Option: <<>> is None, <<v>> is Some(v)
Some(v) == <<v>>
Nothing == <<>>
Abs(n) == IF n < 0 THEN 0 - n ELSE n
Last(s) == s[Len(s)]
\* the last n elements of s
Tail_n(s, n) == IF Len(s) <= n THEN s ELSE SubSeq(s, Len(s) - n + 1, Len(s))
\* u64::saturating_sub
saturating_sub(a, b) == IF a >= b THEN a - b ELSE 0
\* a map with key k set to v, and with key k removed
MapPut(f, k, v) == [x \in DOMAIN f \cup {k} |-> IF x = k THEN v ELSE f[x]]
MapDel(f, k) == [x \in DOMAIN f \ {k} |-> f[x]]
EmptyMap == [x \in {} |-> 0]

\* ------------------------------------------------------------ utils.rs
\* the seconds of the day in WIB, which the code prints as HH:MM:SS
current_wib_time(t) ==
  LET d == (t + WIB_OFFSET) % DAY_SECS
  IN <<d \div 3600, (d % 3600) \div 60, d % 60>>

\* the thousands groups of |n|, most significant first: 1234005 is
\* <<1, 234, 5>>, printed "1.234.005"
RECURSIVE Groups(_)
Groups(m) == IF m < 1000 THEN <<m>> ELSE Append(Groups(m \div 1000), m % 1000)
format_rupiah(n) == [neg |-> n < 0, groups |-> Groups(Abs(n))]

\* the markers format_diff_display matches, by their bytes: U+1F680 (the
\* rocket) and U+1F53B (the red triangle)
MARK_UP == "F0 9F 9A 80"
MARK_DOWN == "F0 9F 94 BB"

format_diff_display(diff, status) ==
  CASE status = MARK_UP -> <<"up+", format_rupiah(diff)>>
    [] status = MARK_DOWN -> <<"down-", format_rupiah(Abs(diff))>>
    [] OTHER -> <<"flat-tetap">>

\* created_at is a 19 character "date time" stamp, modelled as the record
\* of its two parts; the display keeps the time part
format_waktu_only(created_at, status) == <<created_at.time, status>>

\* ------------------------------------------------------------ state.rs
\* the item of one stored entry; its profit tiers and its transaction line
\* are functions of the fields kept here
build_item(h) ==
  [buying_rate |-> format_rupiah(h.buying_rate),
   selling_rate |-> format_rupiah(h.selling_rate),
   buying_rate_raw |-> h.buying_rate,
   selling_rate_raw |-> h.selling_rate,
   waktu_display |-> format_waktu_only(h.created_at, h.status),
   diff_display |-> format_diff_display(h.diff, h.status),
   created_at |-> h.created_at]

\* the serialized document, as the tree the bytes spell out
build_full_state_fast(hist, usd, limit) ==
  [history |-> [i \in 1..Len(hist) |-> build_item(hist[i])],
   usd_idr_history |-> usd,
   limit_bulan |-> limit]

EmptyData == [history |-> <<>>, usd_idr_history |-> <<>>, limit_bulan |-> INITIAL_LIMIT]

\* the version a rebuilt snapshot is stamped with: the one loaded before
\* the rebuild (ver), not the one current when it is stored
StampLate(ver, current) == current
Stamp(ver, current) == ver

\* the test that serves the cached snapshot
CacheFreshTtlOnly(cache, ver, t) == t - cache.created_at < STATE_CACHE_TTL_MS
CacheFreshInverted(cache, ver, t) ==
  cache.version = ver /\ t - cache.created_at > STATE_CACHE_TTL_MS
CacheFresh(cache, ver, t) ==
  cache.version = ver /\ t - cache.created_at < STATE_CACHE_TTL_MS

\* get_cached_state run without interruption: the data returned and the
\* cache left behind
get_cached_state(cache, ver, hist, usd, limit, t) ==
  IF CacheFresh(cache, ver, t)
  THEN [data |-> cache.data, cache |-> cache, rebuilt |-> FALSE]
  ELSE LET d == build_full_state_fast(hist, usd, limit)
       IN [data |-> d,
           cache |-> [data |-> d, version |-> Stamp(ver, ver), created_at |-> t],
           rebuilt |-> TRUE]

\* ------------------------------------------------------------ ws_manager.rs
\* tx: the broadcast channel. tail counts the messages ever stored, buf
\* holds the last CHANNEL_CAPACITY of them, rx_cnt the live receivers.
\* send stores nothing when no receiver is alive.
EmptyTx == [tail |-> 0, buf |-> <<>>, rx_cnt |-> 0]
broadcast(ch, data) ==
  IF ch.rx_cnt = 0 THEN ch
  ELSE [ch EXCEPT !.tail = @ + 1,
                  !.buf = Tail_n(Append(@, data), CHANNEL_CAPACITY)]

\* ------------------------------------------------------------ AppState::new
InitState ==
  /\ history = <<>>
  /\ usd_idr_history = <<>>
  /\ last_buy = 0
  /\ has_last_buy = FALSE
  /\ shown_updates = {}
InitConfig ==
  /\ limit_bulan = INITIAL_LIMIT
  /\ last_successful_call = 0
InitCache ==
  /\ state_cache = [data |-> EmptyData, version |-> 0, created_at |-> 0]
  /\ cache_version = 0
InitGuard ==
  /\ blocked_ips = EmptyMap
  /\ failed_attempts = EmptyMap
InitRL ==
  /\ requests = EmptyMap
  /\ last_cleanup = 0
InitWs ==
  /\ connection_count = 0
  /\ tx = EmptyTx
InitClock ==
  /\ now = StartTime
  /\ instant = 0
NoRet == [op |-> None]
\* what the properties of the step-by-step specifications keep: the limits
\* stored so far, the mutations whose invalidate_cache has returned, the
\* requests served, and the last get_cached_state call that returned
InitCg ==
  [limits |-> <<>>, inv_done |-> [h |-> 0, u |-> 0, l |-> 0],
   reads |-> 0, last |-> Nothing]
\* no task of the step-by-step specifications is running
InitConc ==
  /\ pending = EmptyMap
  /\ task = EmptyMap
  /\ cg = InitCg
  /\ conn = EmptyMap
  /\ bg = 0
  /\ hb_due = FALSE

\* ------------------------------------------------------------ the producers
\* VecDeque with a capacity: pop_front when full, then push_back
PushBoundedLate(q, e, cap) == IF Len(q) > cap THEN Append(Tail(q), e) ELSE Append(q, e)
PushBounded(q, e, cap) == IF Len(q) >= cap THEN Append(Tail(q), e) ELSE Append(q, e)

\* the status tags process_data stores, by the bytes of the literals in
\* treasury.rs. They are not the markers of utils.rs: each is the marker's
\* bytes read as Windows-1252 and written out again as UTF-8.
STATUS_UP == "C3 B0 C5 B8 C5 A1 E2 82 AC"
STATUS_DOWN == "C3 B0 C5 B8 E2 80 9D C2 BB"
STATUS_FLAT == "C3 A2 C5 BE E2 80 93"

\* the status tag and the delta of a new buy price (treasury.rs)
StatusDiff(has_last, last, buy) ==
  IF ~has_last THEN [status |-> STATUS_FLAT, diff |-> 0]
  ELSE IF buy > last THEN [status |-> STATUS_UP, diff |-> buy - last]
  ELSE IF buy < last THEN [status |-> STATUS_DOWN, diff |-> buy - last]
  ELSE [status |-> STATUS_FLAT, diff |-> 0]

\* shown_updates after a new stamp: cleared down to the stamp past the limit
ShownInsert(shown, created_at) ==
  IF Cardinality(shown \cup {created_at}) > SHOWN_LIMIT
  THEN {created_at} ELSE shown \cup {created_at}

\* invalidate_cache, then broadcast(get_cached_state()), run by one task
\* with the state (hist, usd, limit) its mutation has left
InvalidateAndBroadcast(hist, usd, limit) ==
  LET ver == cache_version + 1
      got == get_cached_state(state_cache, ver, hist, usd, limit, instant)
  IN /\ cache_version' = ver
     /\ state_cache' = got.cache
     /\ tx' = broadcast(tx, got.data)
     /\ UNCHANGED connection_count

\* process_data: one gold-rate event. A field that does not parse, an
\* empty stamp or a stamp already shown ends the call with nothing done.
process_data(buy, sell, created_at) ==
  IF buy = Nothing \/ sell = Nothing \/ created_at = Nothing
     \/ created_at[1] \in shown_updates
  THEN UNCHANGED vars
  ELSE LET sd == StatusDiff(has_last_buy, last_buy, buy[1])
           entry == [buying_rate |-> buy[1], selling_rate |-> sell[1],
                     status |-> sd.status, diff |-> sd.diff,
                     created_at |-> created_at[1]]
           hist == PushBounded(history, entry, MAX_HISTORY)
       IN /\ shown_updates' = ShownInsert(shown_updates, created_at[1])
          /\ history' = hist
          /\ last_buy' = buy[1]
          /\ has_last_buy' = TRUE
          /\ InvalidateAndBroadcast(hist, usd_idr_history, limit_bulan)
          /\ appended' = [appended EXCEPT !.price = Append(@, entry)]
          /\ UNCHANGED <<usd_idr_history, configVars, guardVars, rlVars,
                         clockVars, ret, rl_seq, pending, ban_src, concVars>>

\* one round of usd_idr_loop: the fetch gave price (or nothing)
usd_idr_loop(price) ==
  IF price = Nothing
     \/ ~(usd_idr_history = <<>> \/ Last(usd_idr_history).price /= price[1])
  THEN UNCHANGED vars
  ELSE LET entry == [price |-> price[1], time |-> current_wib_time(now)]
           usd == PushBounded(usd_idr_history, entry, MAX_USD_HISTORY)
       IN /\ usd_idr_history' = usd
          /\ InvalidateAndBroadcast(history, usd, limit_bulan)
          /\ appended' = [appended EXCEPT !.usd = Append(@, entry)]
          /\ UNCHANGED <<history, last_buy, has_last_buy, shown_updates,
                         configVars, guardVars, rlVars, clockVars, ret, rl_seq, pending, ban_src, concVars>>

\* the clocks advance by d seconds
Tick(d) ==
  /\ now' = now + d
  /\ instant' = instant + 1000 * d
  /\ UNCHANGED <<stateVars, configVars, cacheVars, guardVars, rlVars, wsVars,
                 appended, ret, rl_seq, pending, ban_src, concVars>>

\* ------------------------------------------------------------ SpecHist
\* The inputs of the producers.
PriceInputs ==
  {[buy |-> Some(100), sell |-> Some(95)], [buy |-> Some(120), sell |-> Some(115)],
   [buy |-> Some(110), sell |-> Some(105)], [buy |-> Nothing, sell |-> Some(95)]}
UsdPrices == {Some("16.000,00"), Some("16.010,50"), Nothing}
\* the stamp of the n-th event of the feed
Stamp_n(n) == [date |-> 1, time |-> n]

\* The state after n events of a feed whose buy prices cycle 100, 120, 110:
\* what process_data has stored by then.
FeedBuy(i) == CASE i % 3 = 1 -> 100 [] i % 3 = 2 -> 120 [] OTHER -> 110
FeedEntry(i) ==
  LET sd == StatusDiff(i > 1, FeedBuy(i - 1), FeedBuy(i))
  IN [buying_rate |-> FeedBuy(i), selling_rate |-> FeedBuy(i) - 5,
      status |-> sd.status, diff |-> sd.diff, created_at |-> Stamp_n(i)]
FeedHistory(n) == [i \in 1..n |-> FeedEntry(i)]
\* and after m rounds of the poll whose prices alternate
PollEntry(i) ==
  [price |-> IF i % 2 = 1 THEN "16.000,00" ELSE "16.010,50",
   time |-> current_wib_time(StartTime)]
PollHistory(m) == [i \in 1..m |-> PollEntry(i)]

\* the runs start empty or one entry short of a full history
InitHist ==
  /\ \E nm \in {<<0, 0>>, <<MAX_HISTORY - 1, 0>>, <<0, MAX_USD_HISTORY - 1>>} :
      LET n == nm[1]
          m == nm[2]
      IN
       /\ history = FeedHistory(n)
       /\ usd_idr_history = PollHistory(m)
       /\ last_buy = (IF n = 0 THEN 0 ELSE FeedBuy(n))
       /\ has_last_buy = (n > 0)
       /\ shown_updates = {Stamp_n(i) : i \in 1..n}
       /\ cache_version = n + m
       /\ state_cache =
            (IF n + m = 0 THEN [data |-> EmptyData, version |-> 0, created_at |-> 0]
             ELSE [data |-> build_full_state_fast(FeedHistory(n), PollHistory(m),
                                                  INITIAL_LIMIT),
                   version |-> n + m, created_at |-> 0])
       /\ appended = [price |-> FeedHistory(n), usd |-> PollHistory(m)]
  /\ InitConfig /\ InitGuard /\ InitRL /\ InitWs /\ InitClock
  /\ ret = NoRet
  /\ InitConc
  /\ rl_seq = EmptyMap
  /\ ban_src = EmptyMap

\* the appends made in the run, from the length l of the log
RunAppends(l, prefill) == IF l >= prefill THEN l - prefill ELSE l

HistProcessData ==
  /\ RunAppends(Len(appended.price), MAX_HISTORY - 1) < MaxAppends
  /\ \E inp \in PriceInputs :
       \E created_at \in {Some(Stamp_n(Len(appended.price) + 1)),
                          Some(Stamp_n(Len(appended.price))), Nothing} :
         process_data(inp.buy, inp.sell, created_at)
HistUsdLoop ==
  /\ RunAppends(Len(appended.usd), MAX_USD_HISTORY - 1) < MaxAppends
  /\ \E price \in UsdPrices : usd_idr_loop(price)

NextHist == HistProcessData \/ HistUsdLoop
SpecHist == InitHist /\ [][NextHist]_vars

\* C1: each rolling history never holds more than its capacity N, and it is
\* always the last N entries appended, in the order of their insertion: once
\* more than N were appended its length is exactly N.
C1_RollingHistories ==
  /\ Len(history) <= MAX_HISTORY
  /\ Len(usd_idr_history) <= MAX_USD_HISTORY
  /\ history = Tail_n(appended.price, MAX_HISTORY)
  /\ usd_idr_history = Tail_n(appended.usd, MAX_USD_HISTORY)
  /\ (Len(appended.price) > MAX_HISTORY => Len(history) = MAX_HISTORY)
  /\ (Len(appended.usd) > MAX_USD_HISTORY => Len(usd_idr_history) = MAX_USD_HISTORY)
\* more than MAX_HISTORY price entries were appended and the oldest is gone
C1_Witness ==
  /\ Len(appended.price) > MAX_HISTORY + 1
  /\ Len(history) = MAX_HISTORY
  /\ history[1] = appended.price[Len(appended.price) - MAX_HISTORY + 1]
  /\ history[1] /= appended.price[1]
\* the same for the exchange-rate history
C1_WitnessUsd ==
  /\ Len(appended.usd) > MAX_USD_HISTORY + 1
  /\ Len(usd_idr_history) = MAX_USD_HISTORY
  /\ Last(usd_idr_history) = Last(appended.usd)

\* the change of the buy price at the k-th accepted update
Delta(k) ==
  IF k = 1 THEN 0
  ELSE appended.price[k].buying_rate - appended.price[k - 1].buying_rate
\* the place in the log of the j-th entry of the history
LogIndex(j) == Len(appended.price) - Len(history) + j

\* C18 (as claimed): the first entry accepted is neutral with delta 0; a
\* later one is up with delta buy - previous buy when its buy price is
\* higher than the one stored before it, down with that delta when lower,
\* neutral with delta 0 when equal; and the snapshot carries the raw buy
\* and sell values as inserted. The status is read where the state endpoint
\* shows it, in the item's diff_display: up +20 for 100 then 120.
C18_StatusDelta ==
  \A j \in 1..Len(history) :
    LET e == history[j]
        item == state_cache.data.history[j]
        d == Delta(LogIndex(j))
    IN /\ e.diff = d
       /\ item.buying_rate_raw = e.buying_rate
       /\ item.selling_rate_raw = e.selling_rate
       /\ item.diff_display =
            (IF d > 0 THEN <<"up+", format_rupiah(d)>>
             ELSE IF d < 0 THEN <<"down-", format_rupiah(0 - d)>>
             ELSE <<"flat-tetap">>)
\* the part of C18 the code keeps: the stored delta, the stored tag as one
\* of the three literals of process_data, and the raw values of the snapshot
C18_StoredDelta ==
  \A j \in 1..Len(history) :
    LET e == history[j]
        item == state_cache.data.history[j]
        d == Delta(LogIndex(j))
    IN /\ e.diff = d
       /\ e.status = (IF d > 0 THEN STATUS_UP
                      ELSE IF d < 0 THEN STATUS_DOWN ELSE STATUS_FLAT)
       /\ item.buying_rate_raw = e.buying_rate
       /\ item.selling_rate_raw = e.selling_rate
\* what the endpoint shows instead: every entry carries the neutral marker
C18_AlwaysNeutral ==
  \A j \in 1..Len(history) :
    state_cache.data.history[j].diff_display = <<"flat-tetap">>

\* ------------------------------------------------------------ rate_limiter.rs
\* the timestamps of a record still inside the window at time t
InWindowLax(ts, t) ==
  SelectSeq(ts, LAMBDA x : x >= saturating_sub(t, RATE_LIMIT_WINDOW))
InWindow(ts, t) ==
  SelectSeq(ts, LAMBDA x : x > saturating_sub(t, RATE_LIMIT_WINDOW))

\* RateLimiter::cleanup at time t: at most one sweep per CLEANUP_INTERVAL;
\* the sweep prunes every record and removes the keys left empty
cleanup(reqs, last, t) ==
  IF t - last < CLEANUP_INTERVAL
  THEN [requests |-> reqs, last_cleanup |-> last]
  ELSE LET pruned == [k \in DOMAIN reqs |-> InWindow(reqs[k], t)]
           kept == {k \in DOMAIN reqs : pruned[k] /= <<>>}
       IN [requests |-> [k \in kept |-> pruned[k]], last_cleanup |-> t]

RL_OK == "Ok"
RL_LIMITED == "Limited"
RL_BLOCKED == "Blocked"
\* the verdict for a record of count timestamps
VerdictNoLimit(count) ==
  IF count >= RATE_LIMIT_STRICT_MAX THEN RL_BLOCKED ELSE RL_OK
Verdict(count) ==
  IF count >= RATE_LIMIT_STRICT_MAX THEN RL_BLOCKED
  ELSE IF count >= RATE_LIMIT_MAX_REQUESTS THEN RL_LIMITED
  ELSE RL_OK

\* RateLimiter::check(ip) at time t, run without interruption: the verdict,
\* the count returned and the limiter's state afterwards
check(reqs, last, ip, t) ==
  LET c == cleanup(reqs, last, t)
      entry == IF ip \in DOMAIN c.requests THEN c.requests[ip] ELSE <<>>
      kept == InWindow(entry, t)
      count == Len(kept)
      status == Verdict(count)
  IN [status |-> status,
      ok |-> status = RL_OK,
      count |-> IF status = RL_OK THEN count + 1 ELSE count,
      found |-> count,
      requests |-> MapPut(c.requests, ip,
                          IF status = RL_OK THEN Append(kept, t) ELSE kept),
      last_cleanup |-> c.last_cleanup]

\* ------------------------------------------------------------ SpecRL
\* rl_seq[ip] follows the calls of one key: a sequence starts with a check
\* that finds no timestamp of the key inside the window, and goes on while
\* the checks fall inside the 60 s that start with it. calls = 0: the key
\* has a check outside that window and no new sequence has begun.
SeqAfter(seq, ip, found, t) ==
  IF found = 0 THEN [start |-> t, calls |-> 1]
  ELSE IF ip \in DOMAIN seq /\ seq[ip].calls > 0
          /\ t - seq[ip].start < RATE_LIMIT_WINDOW
       THEN [start |-> seq[ip].start, calls |-> seq[ip].calls + 1]
       ELSE [start |-> t, calls |-> 0]

RLCheck(ip) ==
  LET r == check(requests, last_cleanup, ip, now)
  IN /\ requests' = r.requests
     /\ last_cleanup' = r.last_cleanup
     /\ ret' = [op |-> "check", ip |-> ip, status |-> r.status, ok |-> r.ok,
                count |-> r.count]
     /\ rl_seq' = MapPut(rl_seq, ip, SeqAfter(rl_seq, ip, r.found, now))
     /\ UNCHANGED <<stateVars, configVars, cacheVars, guardVars, wsVars,
                    clockVars, appended, ban_src, pending, concVars>>

RLKeys == {"a"}
\* the steps of the clock: a timestamp is 59 s old, then 60 s old
RLSteps == {RATE_LIMIT_WINDOW - 1, RATE_LIMIT_WINDOW}

InitRLSpec ==
  /\ InitState /\ InitConfig /\ InitCache /\ InitGuard /\ InitRL /\ InitWs
  /\ InitClock
  /\ appended = [price |-> <<>>, usd |-> <<>>]
  /\ ret = NoRet
  /\ InitConc
  /\ rl_seq = EmptyMap
  /\ ban_src = EmptyMap

RLDoCheck ==
  \E ip \in RLKeys :
    /\ (ip \in DOMAIN rl_seq => rl_seq[ip].calls < MaxChecks)
    /\ RLCheck(ip)
RLTick == \E d \in RLSteps : now + d <= StartTime + MaxRLSpan /\ Tick(d)

NextRL == RLDoCheck \/ RLTick
SpecRL == InitRLSpec /\ [][NextRL]_vars

\* C2 (as claimed): the n-th check of a sequence inside one window is Ok
\* for n in 1..60, Limited for n in 61..120 and Blocked from the 121st on;
\* a check that finds every timestamp aged out is call 1 of a new sequence
\* and Ok.
C2_Verdicts ==
  (ret.op = "check" /\ rl_seq[ret.ip].calls > 0) =>
    LET n == rl_seq[ret.ip].calls
    IN ret.status = (IF n <= RATE_LIMIT_MAX_REQUESTS THEN RL_OK
                     ELSE IF n <= RATE_LIMIT_STRICT_MAX THEN RL_LIMITED
                     ELSE RL_BLOCKED)
\* the part of C2 the code keeps: Ok for the first 60, never Ok after them
C2_FirstSixty ==
  (ret.op = "check" /\ rl_seq[ret.ip].calls > 0) =>
    (ret.status = RL_OK <=> rl_seq[ret.ip].calls <= RATE_LIMIT_MAX_REQUESTS)
\* the verdict the code never gives
C2_NeverBlocked == ret.op = "check" => ret.status /= RL_BLOCKED

\* C28: the record of every key holds at most RATE_LIMIT_MAX_REQUESTS
\* timestamps in every reachable state; check appends a timestamp, the
\* current time, exactly when its verdict is Ok, and a check that answers
\* Limited or Blocked leaves the key's record as it was, apart from the
\* timestamps that have left the window.
C28_RecordBounded ==
  /\ [](\A k \in DOMAIN requests : Len(requests[k]) <= RATE_LIMIT_MAX_REQUESTS)
  /\ [][\A ip \in RLKeys :
          RLCheck(ip) =>
            LET had == IF ip \in DOMAIN requests THEN requests[ip] ELSE <<>>
                kept == InWindow(had, now)
            IN requests'[ip] = IF ret'.status = RL_OK THEN Append(kept, now)
                               ELSE kept]_vars
\* a check finds the record full and is answered Limited
C28_Witness ==
  /\ ret.op = "check"
  /\ ret.status = RL_LIMITED
  /\ Len(requests[ret.ip]) = RATE_LIMIT_MAX_REQUESTS
\* a check that is answered Ok fills the record
C28_WitnessFilled ==
  /\ ret.op = "check"
  /\ ret.status = RL_OK
  /\ Len(requests[ret.ip]) = RATE_LIMIT_MAX_REQUESTS

\* ------------------------------------------------------------ the abuse guard
\* is_ip_blocked(ip) at time t: the answer and the two tables afterwards.
\* An expired ban is removed together with the failed-attempt record.
is_ip_blocked_keep(blocked, failed, ip, t) ==
  IF ip \in DOMAIN blocked
  THEN IF t < blocked[ip]
       THEN [result |-> TRUE, blocked |-> blocked, failed |-> failed]
       ELSE [result |-> FALSE, blocked |-> MapDel(blocked, ip), failed |-> failed]
  ELSE [result |-> FALSE, blocked |-> blocked, failed |-> failed]
is_ip_blocked(blocked, failed, ip, t) ==
  IF ip \in DOMAIN blocked
  THEN IF t < blocked[ip]
       THEN [result |-> TRUE, blocked |-> blocked, failed |-> failed]
       ELSE [result |-> FALSE, blocked |-> MapDel(blocked, ip),
             failed |-> MapDel(failed, ip)]
  ELSE [result |-> FALSE, blocked |-> blocked, failed |-> failed]

\* block_ip(ip, duration) at time t
block_ip(blocked, ip, duration, t) == MapPut(blocked, ip, t + duration)

\* weight copies of t
Copies(weight, t) == [i \in 1..weight |-> t]

\* record_failed_attempt(ip, weight) at time t
record_failed_attempt_one(blocked, failed, ip, weight, t) ==
  LET entry == IF ip \in DOMAIN failed THEN failed[ip] ELSE <<>>
      kept == SelectSeq(Append(entry, t), LAMBDA x : t - x < FAILED_WINDOW)
  IN [failed |-> MapPut(failed, ip, kept),
      blocked |-> IF Len(kept) >= MAX_FAILED_ATTEMPTS
                  THEN block_ip(blocked, ip, BLOCK_DURATION_SECS, t)
                  ELSE blocked,
      banned |-> Len(kept) >= MAX_FAILED_ATTEMPTS]
record_failed_attempt(blocked, failed, ip, weight, t) ==
  LET entry == IF ip \in DOMAIN failed THEN failed[ip] ELSE <<>>
      kept == SelectSeq(entry \o Copies(weight, t), LAMBDA x : t - x < FAILED_WINDOW)
  IN [failed |-> MapPut(failed, ip, kept),
      blocked |-> IF Len(kept) >= MAX_FAILED_ATTEMPTS
                  THEN block_ip(blocked, ip, BLOCK_DURATION_SECS, t)
                  ELSE blocked,
      banned |-> Len(kept) >= MAX_FAILED_ATTEMPTS]

\* ------------------------------------------------------------ SpecGuard
\* ban_src[ip]: the operation that set the ban in force, and when
CountAt(ts, t) == Len(SelectSeq(ts, LAMBDA x : x = t))
FailedOf(failed, ip) == IF ip \in DOMAIN failed THEN failed[ip] ELSE <<>>

GuardRecord(ip, weight) ==
  LET r == record_failed_attempt(blocked_ips, failed_attempts, ip, weight, now)
  IN /\ failed_attempts' = r.failed
     /\ blocked_ips' = r.blocked
     /\ ban_src' = IF r.banned
                   THEN MapPut(ban_src, ip, [by |-> "record_failed_attempt", at |-> now])
                   ELSE ban_src
     /\ ret' = [op |-> "record_failed_attempt", ip |-> ip, weight |-> weight,
                at |-> now,
                had |-> CountAt(FailedOf(failed_attempts, ip), now),
                ban_before |-> IF ip \in DOMAIN blocked_ips
                               THEN blocked_ips[ip] ELSE 0]
     /\ UNCHANGED <<stateVars, configVars, cacheVars, rlVars, wsVars, clockVars,
                    appended, rl_seq, pending, concVars>>

GuardIsBlocked(ip) ==
  LET r == is_ip_blocked(blocked_ips, failed_attempts, ip, now)
  IN /\ failed_attempts' = r.failed
     /\ blocked_ips' = r.blocked
     /\ ban_src' = IF ip \in DOMAIN r.blocked THEN ban_src ELSE MapDel(ban_src, ip)
     /\ ret' = [op |-> "is_ip_blocked", ip |-> ip, result |-> r.result, at |-> now,
                src |-> IF ip \in DOMAIN ban_src THEN ban_src[ip]
                        ELSE [by |-> None, at |-> 0]]
     /\ UNCHANGED <<stateVars, configVars, cacheVars, rlVars, wsVars, clockVars,
                    appended, rl_seq, pending, concVars>>

GuardBlockIp(ip, duration) ==
  /\ blocked_ips' = block_ip(blocked_ips, ip, duration, now)
  /\ ban_src' = MapPut(ban_src, ip, [by |-> "block_ip", at |-> now])
  /\ ret' = [op |-> "block_ip", ip |-> ip, at |-> now]
  /\ UNCHANGED <<stateVars, configVars, cacheVars, failed_attempts, rlVars, wsVars,
                 clockVars, appended, rl_seq, pending, concVars>>

\* the ip the operations of a run are called for, and an ip that the run
\* finds banned by block_ip with two failed attempts on record
GuardIps == {"a"}
Bystander == "b"
\* the weights the callers use (handlers.rs, security.rs)
Weights == {1, 2, 3}
\* the duration of the ban set on a Blocked verdict (security.rs)
RL_BLOCK_SECS == 600
\* the instants of a run, in seconds after its start: an attempt or a ban
\* set at 0 or at 59 is seen just before and just as it expires
GuardOffsets == {FAILED_WINDOW - 1, FAILED_WINDOW,
                 BLOCK_DURATION_SECS - 1, BLOCK_DURATION_SECS,
                 BLOCK_DURATION_SECS + FAILED_WINDOW - 1}

InitGuardSpec ==
  /\ InitState /\ InitConfig /\ InitCache /\ InitRL /\ InitWs /\ InitClock
  /\ LET r == record_failed_attempt(EmptyMap, EmptyMap, Bystander, 2, StartTime)
     IN /\ failed_attempts = r.failed
        /\ blocked_ips = block_ip(r.blocked, Bystander, RL_BLOCK_SECS, StartTime)
  /\ ban_src = MapPut(EmptyMap, Bystander, [by |-> "block_ip", at |-> StartTime])
  /\ appended = [price |-> <<>>, usd |-> <<>>]
  /\ ret = NoRet
  /\ InitConc
  /\ rl_seq = EmptyMap

GuardDoRecord ==
  \E ip \in GuardIps, w \in Weights :
    /\ Len(FailedOf(failed_attempts, ip)) < MaxFailedLen
    /\ GuardRecord(ip, w)
GuardDoIsBlocked == \E ip \in GuardIps : GuardIsBlocked(ip)
GuardDoBlockIp == \E ip \in GuardIps : GuardBlockIp(ip, RL_BLOCK_SECS)
GuardTick ==
  \E o \in GuardOffsets :
    /\ StartTime + o > now
    /\ o <= MaxGuardSpan
    /\ Tick(StartTime + o - now)

NextGuard == GuardDoRecord \/ GuardDoIsBlocked \/ GuardDoBlockIp \/ GuardTick
SpecGuard == InitGuardSpec /\ [][NextGuard]_vars

\* the entries of a record younger than the failed-attempt window at time t
Young(ts, t) == SelectSeq(ts, LAMBDA x : t - x < FAILED_WINDOW)

\* C3: record_failed_attempt(ip, w) adds exactly w entries stamped with the
\* current time; the call that brings the entries younger than 60 s to
\* MAX_FAILED_ATTEMPTS bans the ip until its time + BLOCK_DURATION_SECS, a
\* call that leaves them below it sets no ban; and while that ban is the
\* last one set for the ip, is_ip_blocked(ip) is true before trigger + 300
\* and false at or after it, the call that answers false removing the ban
\* record and the failed-attempt record.
C3_FailedAttemptBan ==
  /\ ret.op = "record_failed_attempt" =>
       LET f == failed_attempts[ret.ip]
           banned == ret.ip \in DOMAIN blocked_ips
       IN /\ CountAt(f, ret.at) = ret.had + ret.weight
          /\ Len(Young(f, ret.at)) >= MAX_FAILED_ATTEMPTS =>
               banned /\ blocked_ips[ret.ip] = ret.at + BLOCK_DURATION_SECS
          /\ Len(Young(f, ret.at)) < MAX_FAILED_ATTEMPTS =>
               IF ret.ban_before = 0 THEN ~banned
               ELSE banned /\ blocked_ips[ret.ip] = ret.ban_before
  /\ (ret.op = "is_ip_blocked" /\ ret.src.by = "record_failed_attempt") =>
       /\ ret.result = (ret.at < ret.src.at + BLOCK_DURATION_SECS)
       /\ ~ret.result =>
            /\ ret.ip \notin DOMAIN blocked_ips
            /\ ret.ip \notin DOMAIN failed_attempts
\* a ban set by the fifth failed attempt is found expired exactly
\* BLOCK_DURATION_SECS after it, and both records are gone
C3_Witness ==
  /\ ret.op = "is_ip_blocked"
  /\ ret.src.by = "record_failed_attempt"
  /\ ret.at = ret.src.at + BLOCK_DURATION_SECS
  /\ ~ret.result
  /\ ret.ip \notin DOMAIN failed_attempts
\* one second earlier the ban still holds
C3_WitnessHeld ==
  /\ ret.op = "is_ip_blocked"
  /\ ret.src.by = "record_failed_attempt"
  /\ ret.at = ret.src.at + BLOCK_DURATION_SECS - 1
  /\ ret.result
\* an attempt of weight 2 on top of three older ones sets the ban
C3_WitnessTrigger ==
  /\ ret.op = "record_failed_attempt"
  /\ ret.weight = 2
  /\ ret.had = 0
  /\ Len(failed_attempts[ret.ip]) = MAX_FAILED_ATTEMPTS
  /\ ret.ban_before = 0
  /\ ret.ip \in DOMAIN blocked_ips


\* ------------------------------------------------------------ SpecCache
\* get_cached_state step by step, run by concurrent tasks: the two
\* producers and a set_limit request, which mutate, invalidate, call
\* get_cached_state and broadcast, and GET /api/state requests.
Writers == {"price", "usd", "admin"}
Readers == {"r1"}
CacheTasks == Writers \cup Readers
\* the runs start with one websocket client subscribed, which is not
\* followed: the broadcasts of the writers are kept for it
LimitValues == {9}
\* the locals of a task. cur, ver and built are those of get_cached_state;
\* need, first and clean are kept for the properties: the mutations
\* invalidated when the call began, the call that had returned last by
\* then, and whether the call has run undisturbed so far
IdleLoc ==
  [pc |-> "idle", cur |-> Nothing, ver |-> 0, built |-> Nothing,
   need |-> [h |-> 0, u |-> 0, l |-> 0], first |-> Nothing, clean |-> TRUE,
   res |-> Nothing]

Mutations == Len(appended.price) + Len(appended.usd) + Len(cg.limits)

InitCacheSpec ==
  /\ InitState /\ InitConfig /\ InitCache /\ InitGuard /\ InitRL
  /\ connection_count = 1
  /\ tx = [EmptyTx EXCEPT !.rx_cnt = 1]
  /\ InitClock
  /\ appended = [price |-> <<>>, usd |-> <<>>]
  /\ ret = NoRet
  /\ rl_seq = EmptyMap
  /\ ban_src = EmptyMap
  /\ task = [t \in CacheTasks |-> IdleLoc]
  /\ cg = InitCg
  /\ pending = EmptyMap
  /\ conn = EmptyMap
  /\ bg = 1
  /\ hb_due = FALSE

\* a mutation or an invalidation disturbs every call in progress and every
\* pair of calls it falls between; a store by task w disturbs the others
Disturbed(loc, by_store) ==
  [loc EXCEPT !.clean = FALSE,
              !.first = IF @ = Nothing THEN @
                        ELSE Some([@[1] EXCEPT !.quiet = @ /\ by_store,
                                               !.solo = FALSE])]
DisturbAll(tk, t, by_store) ==
  [x \in DOMAIN tk |-> IF x = t THEN tk[x] ELSE Disturbed(tk[x], by_store)]
DisturbLast(last, by_store) ==
  IF last = Nothing THEN last
  ELSE Some([last[1] EXCEPT !.quiet = @ /\ by_store, !.solo = FALSE])

\* the mutation of a writer: the history write of process_data, the write
\* of usd_idr_loop, or the stores of a set_limit request that has passed
\* the key, the cooldown and the range checks
CacheMutate(t) ==
  /\ t \in Writers
  /\ task[t].pc = "idle"
  /\ Mutations < MaxMutations
  /\ task' = DisturbAll([task EXCEPT ![t] = [IdleLoc EXCEPT !.pc = "inv"]], t, FALSE)
  /\ CASE t = "price" ->
            LET n == Len(appended.price) + 1
                sd == StatusDiff(has_last_buy, last_buy, FeedBuy(n))
                entry == [buying_rate |-> FeedBuy(n), selling_rate |-> FeedBuy(n) - 5,
                          status |-> sd.status, diff |-> sd.diff,
                          created_at |-> Stamp_n(n)]
            IN /\ shown_updates' = ShownInsert(shown_updates, Stamp_n(n))
               /\ history' = PushBounded(history, entry, MAX_HISTORY)
               /\ last_buy' = FeedBuy(n)
               /\ has_last_buy' = TRUE
               /\ appended' = [appended EXCEPT !.price = Append(@, entry)]
               /\ cg' = [cg EXCEPT !.last = DisturbLast(@, FALSE)]
               /\ UNCHANGED <<usd_idr_history, configVars>>
       [] t = "usd" ->
            LET entry == PollEntry(Len(appended.usd) + 1)
            IN /\ usd_idr_history' = PushBounded(usd_idr_history, entry, MAX_USD_HISTORY)
               /\ appended' = [appended EXCEPT !.usd = Append(@, entry)]
               /\ cg' = [cg EXCEPT !.last = DisturbLast(@, FALSE)]
               /\ UNCHANGED <<history, last_buy, has_last_buy, shown_updates,
                              configVars>>
       [] OTHER ->
            \E v \in LimitValues :
               /\ ~(now - last_successful_call < RATE_LIMIT_SECONDS)
               /\ ~(v < MIN_LIMIT \/ v > MAX_LIMIT)
               /\ limit_bulan' = v
               /\ last_successful_call' = now
               /\ cg' = [cg EXCEPT !.limits = Append(@, v),
                                   !.last = DisturbLast(@, FALSE)]
               /\ UNCHANGED <<stateVars, appended>>
  /\ UNCHANGED <<cacheVars, guardVars, rlVars, wsVars, clockVars, ret, rl_seq, pending,
                 ban_src, connVars>>

\* invalidate_cache, called by the writer after its mutation
CacheInvalidate(t) ==
  /\ task[t].pc = "inv"
  /\ cache_version' = cache_version + 1
  /\ task' = DisturbAll([task EXCEPT ![t].pc = "gcs_load"], t, FALSE)
  /\ cg' = [cg EXCEPT !.last = DisturbLast(@, FALSE),
                      !.inv_done =
              CASE t = "price" -> [@ EXCEPT !.h = Len(appended.price)]
                [] t = "usd" -> [@ EXCEPT !.u = Len(appended.usd)]
                [] OTHER -> [@ EXCEPT !.l = Len(cg.limits)]]
  /\ UNCHANGED <<stateVars, configVars, state_cache, guardVars, rlVars, wsVars,
                 clockVars, appended, ret, rl_seq, pending, ban_src,
                 connVars>>

\* the end of a get_cached_state call that returns data and leaves cache:
\* the writer goes on to broadcast, the request handler to respond
Returned(loc, data, rebuilt, cache) ==
  [loc EXCEPT !.pc = "returned", !.cur = Nothing, !.built = Nothing,
              !.res = Some([data |-> data, rebuilt |-> rebuilt,
                            in_ttl |-> loc.first /= Nothing /\
                               instant - loc.first[1].cache.created_at
                                 < STATE_CACHE_TTL_MS,
                            cache |-> cache])]
LastCall(loc, data, cache) ==
  Some([data |-> data, cache |-> cache, quiet |-> TRUE, solo |-> loc.clean])

\* get_cached_state, first step: state_cache.load(). A request handler
\* starts its call here.
GcsLoad(t) ==
  /\ \/ task[t].pc = "gcs_load"
     \/ t \in Readers /\ task[t].pc = "idle" /\ cg.reads < MaxReads
  /\ task' = [task EXCEPT ![t] =
                [IdleLoc EXCEPT !.pc = "gcs_ver", !.cur = Some(state_cache),
                                !.need = cg.inv_done, !.first = cg.last]]
  /\ cg' = [cg EXCEPT !.reads = IF t \in Readers THEN @ + 1 ELSE @]
  /\ UNCHANGED <<stateVars, configVars, cacheVars, guardVars, rlVars, wsVars,
                 clockVars, appended, ret, rl_seq, pending, ban_src,
                 connVars>>

\* cache_version.load() and the test: a fresh snapshot is returned
GcsVer(t) ==
  /\ task[t].pc = "gcs_ver"
  /\ LET loc == task[t]
         ver == cache_version
     IN IF CacheFresh(loc.cur[1], ver, instant)
        THEN /\ task' = [task EXCEPT ![t] =
                           Returned(loc, loc.cur[1].data, FALSE, state_cache)]
             /\ cg' = [cg EXCEPT !.last = LastCall(loc, loc.cur[1].data, state_cache)]
        ELSE /\ task' = [task EXCEPT ![t] = [loc EXCEPT !.pc = "gcs_build",
                                                        !.ver = ver, !.cur = Nothing]]
             /\ cg' = cg
  /\ UNCHANGED <<stateVars, configVars, cacheVars, guardVars, rlVars, wsVars,
                 clockVars, appended, ret, rl_seq, pending, ban_src,
                 connVars>>

\* build_full_state_fast: under the two read locks, which are held from
\* here to the end of the step and so exclude a write in between
GcsBuild(t) ==
  /\ task[t].pc = "gcs_build"
  /\ task' = [task EXCEPT ![t].pc = "gcs_store",
                          ![t].built = Some(build_full_state_fast(
                                              history, usd_idr_history, limit_bulan))]
  /\ UNCHANGED <<stateVars, configVars, cacheVars, guardVars, rlVars, wsVars,
                 clockVars, appended, ret, rl_seq, pending, ban_src, cg,
                 connVars>>

\* state_cache.store(): the snapshot carries the version loaded before
GcsStore(t) ==
  /\ task[t].pc = "gcs_store"
  /\ LET loc == task[t]
         entry == [data |-> loc.built[1], version |-> Stamp(loc.ver, cache_version),
                   created_at |-> instant]
     IN /\ state_cache' = entry
        /\ task' = DisturbAll([task EXCEPT ![t] =
                                 Returned(loc, loc.built[1], TRUE, entry)], t, TRUE)
        /\ cg' = [cg EXCEPT !.last = LastCall(loc, loc.built[1], entry)]
  /\ UNCHANGED <<stateVars, configVars, cache_version, guardVars, rlVars, wsVars,
                 clockVars, appended, ret, rl_seq, pending, ban_src,
                 connVars>>

\* the caller uses the result: ws_manager.broadcast(data) in a writer, the
\* response in a request handler
CacheDeliver(t) ==
  /\ task[t].pc = "returned"
  /\ tx' = IF t \in Writers THEN broadcast(tx, task[t].res[1].data) ELSE tx
  /\ task' = [task EXCEPT ![t] = IdleLoc]
  /\ UNCHANGED <<stateVars, configVars, cacheVars, guardVars, rlVars,
                 connection_count, clockVars, appended, ret, rl_seq, pending, ban_src, cg,
                 connVars>>

\* a TTL passes
CacheTick ==
  /\ instant + STATE_CACHE_TTL_MS <= MaxCacheInstant
  /\ instant' = instant + STATE_CACHE_TTL_MS
  /\ UNCHANGED <<stateVars, configVars, cacheVars, guardVars, rlVars, wsVars,
                 now, appended, ret, rl_seq, pending, ban_src, concVars>>

NextCache ==
  \/ \E t \in CacheTasks :
       \/ CacheMutate(t)
       \/ CacheInvalidate(t)
       \/ GcsLoad(t)
       \/ GcsVer(t)
       \/ GcsBuild(t)
       \/ GcsStore(t)
       \/ CacheDeliver(t)
  \/ CacheTick
SpecCache == InitCacheSpec /\ [][NextCache]_vars


\* the document of the state after h price entries, u rate entries and l
\* limit changes
DataAt(h, u, l) ==
  build_full_state_fast(Tail_n(SubSeq(appended.price, 1, h), MAX_HISTORY),
                        Tail_n(SubSeq(appended.usd, 1, u), MAX_USD_HISTORY),
                        IF l = 0 THEN INITIAL_LIMIT ELSE cg.limits[l])

\* C4: under any interleaving, a get_cached_state call that starts after
\* the invalidate_cache following a mutation has returned yields a document
\* that holds that mutation: it is the document of a state no older, in
\* each of history, rate history and limit, than the mutations invalidated
\* when the call began. A snapshot rebuilt while the mutation was made is
\* not served in its place.
C4_InvalidateVisible ==
  \A t \in DOMAIN task :
    task[t].res /= Nothing =>
      \E h \in task[t].need.h..Len(appended.price),
         u \in task[t].need.u..Len(appended.usd),
         l \in task[t].need.l..Len(cg.limits) :
        task[t].res[1].data = DataAt(h, u, l)
\* a request that began after a price entry and a limit change were
\* invalidated has its answer
C4_Witness ==
  /\ "r1" \in DOMAIN task
  /\ task["r1"].res /= Nothing
  /\ task["r1"].need.h = 1
  /\ task["r1"].need.l = 1
\* a call is answered from a cache that another caller filled after the
\* invalidation
C4_WitnessCached ==
  \E t \in DOMAIN task :
    /\ task[t].res /= Nothing
    /\ ~task[t].res[1].rebuilt
    /\ task[t].need.h = 1

\* C5 (as claimed): a get_cached_state call that follows another one, made
\* within the TTL of the snapshot the first left cached and with no
\* mutation or invalidate_cache between the two, returns the same data,
\* rebuilds nothing and leaves the cached snapshot as it was.
C5_RepeatCall ==
  \A t \in DOMAIN task :
    (/\ task[t].res /= Nothing
     /\ task[t].first /= Nothing
     /\ task[t].first[1].quiet
     /\ task[t].res[1].in_ttl) =>
      /\ ~task[t].res[1].rebuilt
      /\ task[t].res[1].data = task[t].first[1].data
      /\ task[t].res[1].cache = task[t].first[1].cache
\* C5 (amended): the same, when in addition no mutation, no
\* invalidate_cache and no store of a snapshot by another caller has
\* happened since the first call began.
C5_RepeatCallUndisturbed ==
  \A t \in DOMAIN task :
    (/\ task[t].res /= Nothing
     /\ task[t].first /= Nothing
     /\ task[t].first[1].solo
     /\ task[t].res[1].in_ttl) =>
      /\ ~task[t].res[1].rebuilt
      /\ task[t].res[1].data = task[t].first[1].data
      /\ task[t].res[1].cache = task[t].first[1].cache
\* the second of two undisturbed calls is served the snapshot that the
\* first one rebuilt after a mutation
C5_Witness ==
  \E t \in DOMAIN task :
    /\ task[t].res /= Nothing
    /\ task[t].first /= Nothing
    /\ task[t].first[1].solo
    /\ task[t].res[1].in_ttl
    /\ ~task[t].res[1].rebuilt
    /\ Len(task[t].res[1].data.history) = 1

\* the limit in force before the l-th change
LimitBefore(l) == IF l <= 1 THEN INITIAL_LIMIT ELSE cg.limits[l - 1]

\* C17: a set_limit request that has passed its checks stores v as the
\* limit, increments the cache version, and before it returns broadcasts a
\* snapshot whose limit_bulan is v or the value of a later change, never
\* the value in force before its change, whatever the age of the cached
\* snapshot and whatever the other tasks do meanwhile.
C17_SetLimitBroadcast ==
  [][LET a == task["admin"]
         b == task'["admin"]
     IN /\ (a.pc = "idle" /\ b.pc = "inv") =>
             /\ Len(cg'.limits) = Len(cg.limits) + 1
             /\ limit_bulan' = Last(cg'.limits)
        /\ (a.pc = "inv" /\ b.pc = "gcs_load") =>
             cache_version' = cache_version + 1
        /\ (a.pc = "returned" /\ b.pc = "idle") =>
             /\ tx'.tail = tx.tail + 1
             /\ Last(tx'.buf) = a.res[1].data
             /\ \E l \in a.need.l..Len(cg.limits) :
                  /\ l >= 1
                  /\ Last(tx'.buf).limit_bulan = cg.limits[l]
             /\ Last(tx'.buf).limit_bulan /= LimitBefore(a.need.l)
    ]_vars
\* the request has broadcast the new limit, with the snapshot cached before
\* its change still inside its TTL
C17_Witness ==
  /\ "admin" \in DOMAIN task
  /\ task["admin"].pc = "idle"
  /\ Len(cg.limits) = 1
  /\ appended = [price |-> <<>>, usd |-> <<>>]
  /\ instant - 0 < STATE_CACHE_TTL_MS
  /\ tx.tail = 1
  /\ tx.buf[1].limit_bulan = cg.limits[1]
  /\ tx.buf[1].limit_bulan /= INITIAL_LIMIT
\* the request is about to broadcast a snapshot that another caller
\* rebuilt after its change
C17_WitnessCached ==
  /\ "admin" \in DOMAIN task
  /\ task["admin"].pc = "returned"
  /\ ~task["admin"].res[1].rebuilt
  /\ task["admin"].res[1].data.limit_bulan = cg.limits[1]

\* C22 (as claimed): across the replacements of the cached snapshot by
\* concurrent get_cached_state callers, the version of the snapshot held in
\* state_cache never decreases.
C22_VersionMonotone ==
  [][state_cache'.version >= state_cache.version]_vars
\* the part of C22 the code keeps: cache_version never decreases, and no
\* snapshot is stamped with a version above it
C22_VersionBounded ==
  /\ [](state_cache.version <= cache_version)
  /\ [][cache_version' >= cache_version]_vars
\* document b holds every mutation that document a holds
Reflects(b, a) ==
  /\ Len(b.history) >= Len(a.history)
  /\ Len(b.usd_idr_history) >= Len(a.usd_idr_history)
  /\ a.limit_bulan /= INITIAL_LIMIT => b.limit_bulan = a.limit_bulan
\* no writer is between its mutation and its broadcast
WritersIdle == \A t \in Writers \cap DOMAIN task : task[t].pc = "idle"

\* C26 (as claimed): with the price producer, the rate producer and a
\* set_limit request running concurrently, a snapshot that is broadcast
\* holds every mutation that the snapshot broadcast before it holds; hence
\* whenever no writer is in progress the last snapshot broadcast is the
\* document of the current state.
C26_BroadcastOrder ==
  /\ [][(tx'.tail = tx.tail + 1 /\ tx.tail > 0) =>
          Reflects(Last(tx'.buf), Last(tx.buf))]_vars
  /\ []((WritersIdle /\ tx.tail > 0) =>
          Last(tx.buf) =
            build_full_state_fast(history, usd_idr_history, limit_bulan))
\* the part of C26 the code keeps: each writer broadcasts a snapshot that
\* holds its own mutation
C26_OwnMutation ==
  [][\A t \in Writers \cap DOMAIN task :
       (task[t].pc = "returned" /\ task'[t].pc = "idle") =>
         /\ tx'.tail = tx.tail + 1
         /\ \E h \in task[t].need.h..Len(appended.price),
               u \in task[t].need.u..Len(appended.usd),
               l \in task[t].need.l..Len(cg.limits) :
              Last(tx'.buf) = DataAt(h, u, l)
    ]_vars

\* ------------------------------------------------------------ SpecWs
\* The websocket side: handle_ws step by step for each connection of Conns,
\* its send_task and recv_task, the heartbeat and a producer that
\* broadcasts, next to bg other established connections.
\*
\* connection_count is a usize: a value below zero stands for the wrapped
\* one (2^64 more), so the comparisons treat it as larger than any count.
Conns == {"c1", "c2"}
AtCapacityLate(count) == count < 0 \/ count > MAX_CONNECTIONS
AtCapacity(count) == count < 0 \/ count >= MAX_CONNECTIONS
unsubscribe(count) == count - 1
\* handle_ws after a failed send of the first snapshot
snapshot_failed_leak(count) == count
snapshot_failed(count) == unsubscribe(count)

\* the heartbeat message
Ping == [ping |-> TRUE]
\* what an inbound poll of the socket can give: a frame (Binary is handled
\* as Text, Pong as Ping), a transport error, the end of the stream
Frames == {"text", "ping", "close"}
Inbound == Frames \cup {"error", "end"}

\* tx.send is a plain call: it stores the message and returns, whatever the
\* receivers have read (pos: the messages each live receiver has consumed)
send_ready_bounded(ch, pos) == \A c \in DOMAIN pos : ch.tail - pos[c] < CHANNEL_CAPACITY
send_ready(ch, pos) == TRUE

\* the message of number seq, while the buffer retains it
Retained(ch, seq) == seq > ch.tail - Len(ch.buf) /\ seq <= ch.tail
MsgAt(ch, seq) == ch.buf[seq - (ch.tail - Len(ch.buf))]

\* rx.recv() of a receiver that has consumed pos messages: Lagged when
\* messages it has not read are overwritten, the cursor then moving to the
\* oldest one retained; else the next message; else it waits
rx_recv(ch, pos) ==
  IF ch.tail - pos > CHANNEL_CAPACITY
  THEN [kind |-> "lagged", pos |-> ch.tail - CHANNEL_CAPACITY, msg |-> Nothing]
  ELSE IF pos < ch.tail
  THEN [kind |-> "msg", pos |-> pos + 1,
        msg |-> Some([seq |-> pos + 1, data |-> MsgAt(ch, pos + 1)])]
  ELSE [kind |-> "empty", pos |-> pos, msg |-> Nothing]
\* send_task after Err(Lagged): continue
on_lagged_break == "ended"
on_lagged == "recv"

\* a connection not yet accepted. pc is the place of handle_ws, send and
\* recvt those of the two tasks, count the value fetch_add returned, pos the
\* cursor of rx, held the message being sent, idle the seconds the inbound
\* wait has lasted; granted, unsubs, fwd, ended_by, last_recv and was_full
\* (MAX_CONNECTIONS subscriptions were held when subscribe was called) are
\* kept for the properties.
NewConn ==
  [pc |-> "new", count |-> 0, send |-> "none", recvt |-> "none", pos |-> 0,
   held |-> Nothing, idle |-> 0,
   granted |-> FALSE, unsubs |-> 0, fwd |-> <<>>,
   ended_by |-> None, last_recv |-> None, was_full |-> FALSE]

\* the connections that hold a subscription, and the cursors of the live
\* receivers
Active == bg + Cardinality({c \in DOMAIN conn : conn[c].granted /\ conn[c].unsubs = 0})
HasRx(k) == k.pc = "snap" \/ k.send \in {"recv", "send"}
Cursors == [c \in {x \in DOMAIN conn : HasRx(conn[x])} |-> conn[c].pos]

\* a run starts with all places but one taken and two connections coming,
\* or with c1 alone, established behind a client that reads slowly and has sent nothing
\* since two heartbeats: CHANNEL_CAPACITY heartbeats are unread and one
\* more is being sent
LaggingConn ==
  [NewConn EXCEPT !.pc = "run", !.granted = TRUE, !.send = "send",
                  !.recvt = "wait", !.pos = 1,
                  !.idle = WS_TIMEOUT_SECS - HEARTBEAT_INTERVAL_SECS,
                  !.held = Some([seq |-> 1, data |-> Ping])]
InitWsSpec ==
  /\ InitState /\ InitConfig /\ InitCache /\ InitGuard /\ InitRL /\ InitClock
  /\ appended = [price |-> <<>>, usd |-> <<>>]
  /\ ret = NoRet
  /\ rl_seq = EmptyMap
  /\ ban_src = EmptyMap
  /\ pending = EmptyMap
  /\ task = EmptyMap
  /\ cg = InitCg
  /\ hb_due = FALSE
  /\ \/ /\ bg = MAX_CONNECTIONS - 1
        /\ connection_count = bg
        /\ tx = [EmptyTx EXCEPT !.rx_cnt = bg]
        /\ conn = [c \in Conns |-> NewConn]
     \/ /\ bg = 0
        /\ connection_count = 1
        /\ tx = [tail |-> CHANNEL_CAPACITY + 1, rx_cnt |-> 1,
                 buf |-> [i \in 1..CHANNEL_CAPACITY |-> Ping]]
        /\ conn = [c \in Conns |-> IF c = "c1" THEN LaggingConn
                                 ELSE [NewConn EXCEPT !.pc = "absent"]]

\* subscribe, first step: connection_count.fetch_add(1)
WsFetchAdd(c) ==
  /\ conn[c].pc = "new"
  /\ connection_count' = connection_count + 1
  /\ conn' = [conn EXCEPT ![c].pc = "added", ![c].count = connection_count,
                          ![c].was_full = (Active >= MAX_CONNECTIONS)]
  /\ UNCHANGED <<stateVars, configVars, cacheVars, guardVars, rlVars, tx,
                 clockVars, appended, ret, rl_seq, pending, ban_src, task, cg, bg, hb_due>>

\* subscribe, second step: at capacity the counter is restored and handle_ws
\* returns; else tx.subscribe() gives a receiver placed at the tail
WsSubscribe(c) ==
  /\ conn[c].pc = "added"
  /\ IF AtCapacity(conn[c].count)
     THEN /\ connection_count' = connection_count - 1
          /\ conn' = [conn EXCEPT ![c].pc = "done", ![c].count = 0]
          /\ tx' = tx
     ELSE /\ tx' = [tx EXCEPT !.rx_cnt = @ + 1]
          /\ conn' = [conn EXCEPT ![c].pc = "snap", ![c].granted = TRUE,
                                  ![c].pos = tx.tail, ![c].count = 0]
          /\ UNCHANGED connection_count
  /\ UNCHANGED <<stateVars, configVars, cacheVars, guardVars, rlVars,
                 clockVars, appended, ret, rl_seq, pending, ban_src, task, cg, bg, hb_due>>

\* the first snapshot is sent: when the send fails handle_ws unsubscribes
\* and returns, dropping rx; else the two tasks are spawned
WsSnapshot(c) ==
  /\ conn[c].pc = "snap"
  /\ state_cache' = get_cached_state(state_cache, cache_version, history,
                                     usd_idr_history, limit_bulan, instant).cache
  /\ \/ /\ connection_count' = snapshot_failed(connection_count)
        /\ tx' = [tx EXCEPT !.rx_cnt = @ - 1]
        /\ conn' = [conn EXCEPT ![c].pc = "done",
                                ![c].unsubs = @ + connection_count - connection_count']
     \/ /\ conn' = [conn EXCEPT ![c].pc = "run", ![c].send = "recv",
                                ![c].recvt = "wait", ![c].idle = 0]
        /\ UNCHANGED <<connection_count, tx>>
  /\ UNCHANGED <<stateVars, configVars, cache_version, guardVars, rlVars,
                 clockVars, appended, ret, rl_seq, pending, ban_src, task, cg, bg, hb_due>>

\* send_task at rx.recv().await: a message is taken, or Lagged is handled
SendRecv(c) ==
  /\ conn[c].send = "recv"
  /\ LET r == rx_recv(tx, conn[c].pos)
     IN /\ r.kind /= "empty"
        /\ conn' = [conn EXCEPT ![c].pos = r.pos,
                      ![c].held = r.msg,
                      ![c].send = IF r.kind = "msg" THEN "send" ELSE on_lagged,
                      ![c].last_recv = r.kind]
        /\ tx' = IF r.kind = "lagged" /\ on_lagged = "ended"
                 THEN [tx EXCEPT !.rx_cnt = @ - 1] ELSE tx
  /\ UNCHANGED <<stateVars, configVars, cacheVars, guardVars, rlVars,
                 connection_count, clockVars, appended, ret, rl_seq, pending, ban_src,
                 task, cg, bg, hb_due>>

\* the messages forwarded in the run
RECURSIVE SumFwd(_)
SumFwd(cs) ==
  IF cs = {} THEN 0
  ELSE LET c == CHOOSE x \in cs : TRUE IN Len(conn[c].fwd) + SumFwd(cs \ {c})
Forwards == SumFwd(DOMAIN conn)

\* send_task at sender.send(..).await: the client takes the message, or the
\* send fails and the task ends, dropping rx
SendSink(c) ==
  /\ conn[c].send = "send"
  /\ \/ /\ Forwards < MaxForwards
        /\ conn' = [conn EXCEPT ![c].send = "recv", ![c].held = Nothing,
                                ![c].fwd = Append(@, conn[c].held[1])]
        /\ tx' = tx
     \/ /\ conn' = [conn EXCEPT ![c].send = "ended", ![c].held = Nothing]
        /\ tx' = [tx EXCEPT !.rx_cnt = @ - 1]
  /\ UNCHANGED <<stateVars, configVars, cacheVars, guardVars, rlVars,
                 connection_count, clockVars, appended, ret, rl_seq, pending, ban_src,
                 task, cg, bg, hb_due>>

\* recv_task: receiver.next() gives something before the timeout. A Text
\* or Binary frame starts the next wait; anything else ends the task
RecvFrame(c) ==
  /\ conn[c].recvt = "wait"
  /\ conn[c].idle < WS_TIMEOUT_SECS
  /\ \E k \in Inbound :
       conn' = IF k = "text"
               THEN [conn EXCEPT ![c].idle = 0]
               ELSE [conn EXCEPT ![c].recvt = "ended", ![c].ended_by = k]
  /\ UNCHANGED <<stateVars, configVars, cacheVars, guardVars, rlVars, wsVars,
                 clockVars, appended, ret, rl_seq, pending, ban_src, task, cg, bg, hb_due>>

\* recv_task: the timeout of WS_TIMEOUT_SECS elapses first
RecvTimeout(c) ==
  /\ conn[c].recvt = "wait"
  /\ conn[c].idle >= WS_TIMEOUT_SECS
  /\ conn' = [conn EXCEPT ![c].recvt = "ended", ![c].ended_by = "timeout"]
  /\ UNCHANGED <<stateVars, configVars, cacheVars, guardVars, rlVars, wsVars,
                 clockVars, appended, ret, rl_seq, pending, ban_src, task, cg, bg, hb_due>>

\* select!: one of the two join handles is ready; both handles are dropped,
\* which leaves the other task running, and handle_ws unsubscribes
WsSelect(c) ==
  /\ conn[c].pc = "run"
  /\ conn[c].send = "ended" \/ conn[c].recvt = "ended"
  /\ connection_count' = unsubscribe(connection_count)
  /\ conn' = [conn EXCEPT ![c].pc = "done", ![c].unsubs = @ + 1,
                          ![c].ended_by = None, ![c].last_recv = None]
  /\ UNCHANGED <<stateVars, configVars, cacheVars, guardVars, rlVars, tx,
                 clockVars, appended, ret, rl_seq, pending, ban_src, task, cg, bg, hb_due>>

\* a producer broadcasts a new snapshot
WsProduce ==
  /\ Len(appended.usd) < MaxWsBroadcasts
  /\ send_ready(tx, Cursors)
  /\ usd_idr_loop(Some(PollEntry(Len(appended.usd) + 1).price))

\* heartbeat_loop after its sleep
WsHeartbeat ==
  /\ hb_due
  /\ send_ready(tx, Cursors)
  /\ hb_due' = FALSE
  /\ tx' = IF connection_count /= 0 THEN broadcast(tx, Ping) ELSE tx
  /\ UNCHANGED <<stateVars, configVars, cacheVars, guardVars, rlVars,
                 connection_count, clockVars, appended, ret, rl_seq, pending, ban_src,
                 task, cg, conn, bg>>

\* HEARTBEAT_INTERVAL_SECS pass, once the heartbeat and the timeouts due
\* have been handled
WsTick ==
  /\ ~hb_due
  /\ \A c \in DOMAIN conn : conn[c].recvt = "wait" => conn[c].idle < WS_TIMEOUT_SECS
  /\ now + HEARTBEAT_INTERVAL_SECS <= StartTime + MaxWsSpan
  /\ now' = now + HEARTBEAT_INTERVAL_SECS
  /\ instant' = instant + 1000 * HEARTBEAT_INTERVAL_SECS
  /\ hb_due' = TRUE
  /\ conn' = [c \in DOMAIN conn |->
                IF conn[c].recvt = "wait"
                THEN [conn[c] EXCEPT !.idle = @ + HEARTBEAT_INTERVAL_SECS]
                ELSE conn[c]]
  /\ UNCHANGED <<stateVars, configVars, cacheVars, guardVars, rlVars, wsVars,
                 appended, ret, rl_seq, pending, ban_src, task, cg, bg>>

NextWs ==
  \/ \E c \in Conns :
       \/ WsFetchAdd(c)
       \/ WsSubscribe(c)
       \/ WsSnapshot(c)
       \/ SendRecv(c)
       \/ SendSink(c)
       \/ RecvFrame(c)
       \/ RecvTimeout(c)
       \/ WsSelect(c)
  \/ WsProduce
  \/ WsHeartbeat
  \/ WsTick
SpecWs == InitWsSpec /\ [][NextWs]_vars


\* C6: under any interleaving of subscribe and unsubscribe, the
\* subscriptions granted and not yet unsubscribed never exceed
\* MAX_CONNECTIONS; a subscribe called while MAX_CONNECTIONS of them are
\* held gets no receiver; and a refused call leaves no trace in the
\* counter, which is the subscriptions held plus the calls that have
\* incremented it and not yet decided.
C6_ConnectionCap ==
  /\ Active <= MAX_CONNECTIONS
  /\ \A c \in DOMAIN conn :
       (conn[c].was_full /\ conn[c].pc /= "added") =>
          conn[c].pc = "done" /\ ~conn[c].granted
  /\ connection_count =
       Active + Cardinality({c \in DOMAIN conn : conn[c].pc = "added"})
\* a subscribe called with every place taken has returned without a
\* receiver and the counter is back at MAX_CONNECTIONS
C6_Witness ==
  \E c \in DOMAIN conn :
    /\ conn[c].was_full
    /\ conn[c].pc = "done"
    /\ ~conn[c].granted
    /\ connection_count = MAX_CONNECTIONS
    /\ Active = MAX_CONNECTIONS
\* two calls have incremented the counter past the cap before either decided
C6_WitnessRace ==
  /\ connection_count = MAX_CONNECTIONS + 1
  /\ \A c \in DOMAIN conn : conn[c].pc = "added"

\* C7: handle_ws calls unsubscribe exactly once when subscribe gave a
\* receiver, whichever way it ends (first snapshot not sent, send_task
\* ended, recv_task ended), and never when subscribe gave none; the counter
\* never wraps below zero.
C7_UnsubscribeOnce ==
  /\ \A c \in DOMAIN conn :
       /\ conn[c].unsubs <= 1
       /\ conn[c].unsubs = 1 => conn[c].granted
       /\ conn[c].pc = "done" => conn[c].unsubs = (IF conn[c].granted THEN 1 ELSE 0)
       /\ conn[c].pc /= "done" => conn[c].unsubs = 0
  /\ connection_count >= 0
\* handle_ws has ended on the idle timeout of recv_task
C7_Witness ==
  \E c \in DOMAIN conn :
    /\ conn[c].pc = "done"
    /\ conn[c].unsubs = 1
    /\ conn[c].recvt = "ended"
    /\ conn[c].idle >= WS_TIMEOUT_SECS
\* ... on the failed send of the first snapshot
C7_WitnessSnapshot ==
  \E c \in DOMAIN conn :
    conn[c].pc = "done" /\ conn[c].unsubs = 1 /\ conn[c].send = "none"
\* ... on the end of send_task
C7_WitnessSendTask ==
  \E c \in DOMAIN conn :
    /\ conn[c].pc = "done"
    /\ conn[c].unsubs = 1
    /\ conn[c].send = "ended"
    /\ conn[c].recvt = "wait"
\* ... and without a subscription
C7_WitnessRefused ==
  \E c \in DOMAIN conn :
    conn[c].pc = "done" /\ ~conn[c].granted /\ conn[c].unsubs = 0

\* C8 (as claimed): once handle_ws has unsubscribed, send_task forwards no
\* further message of the connection and recv_task awaits no further
\* frame: the task that had not ended is stopped.
C8_DutiesStopTogether ==
  [][\A c \in DOMAIN conn :
       conn[c].unsubs >= 1 =>
         /\ conn'[c].fwd = conn[c].fwd
         /\ conn'[c].recvt /= "wait"]_vars
\* a message is forwarded on a connection that has unsubscribed
C8_ForwardAfterUnsubscribe ==
  [][\A c \in DOMAIN conn :
       conn[c].unsubs >= 1 => conn'[c].fwd = conn[c].fwd]_vars

\* C9: broadcast never waits for a receiver, whatever is unread; a
\* receiver that has met Lagged goes on receiving; and the messages
\* forwarded on a connection are broadcast messages (compared while the
\* buffer retains them) in increasing broadcast order.
C9_BroadcastLag ==
  /\ send_ready(tx, Cursors)
  /\ \A c \in DOMAIN conn :
       /\ conn[c].last_recv = "lagged" => conn[c].send = "recv"
       /\ \A i \in 1..Len(conn[c].fwd) :
            /\ conn[c].fwd[i].seq \in 1..tx.tail
            /\ Retained(tx, conn[c].fwd[i].seq) =>
                 conn[c].fwd[i].data = MsgAt(tx, conn[c].fwd[i].seq)
            /\ i > 1 => conn[c].fwd[i - 1].seq < conn[c].fwd[i].seq
\* the slow client was sent message 1, message 2 was overwritten unread,
\* and after the lag indication it was sent message 3
C9_Witness ==
  /\ "c1" \in DOMAIN conn
  /\ Len(conn["c1"].fwd) = 2
  /\ conn["c1"].fwd[1].seq = 1
  /\ conn["c1"].fwd[2].seq = 3
  /\ tx.tail - 1 > CHANNEL_CAPACITY
\* a receiver has just met Lagged and waits for its next message
C9_WitnessLagged ==
  \E c \in DOMAIN conn :
    conn[c].last_recv = "lagged" /\ conn[c].pos = tx.tail - CHANNEL_CAPACITY

\* C10 (as claimed): recv_task is not ended by an inbound frame of any
\* type: a frame that arrives before the timeout starts the next wait, and
\* the task ends on the timeout, on a transport error or on the end of the
\* stream.
C10_AnyFrameResets ==
  \A c \in DOMAIN conn : conn[c].ended_by \notin Frames

\* the connections whose send_task holds a live receiver: all of them, and
\* those whose handle_ws has not unsubscribed
Forwarding ==
  bg + Cardinality({c \in DOMAIN conn : conn[c].send \in {"recv", "send"}})
ForwardingHeld ==
  bg + Cardinality({c \in DOMAIN conn :
                      conn[c].send \in {"recv", "send"} /\ conn[c].unsubs = 0})

\* C27 (as claimed): the connections whose send_task still holds a live
\* broadcast receiver, and so still forwards broadcasts and heartbeats to a
\* client, are never more than MAX_CONNECTIONS and never more than the
\* subscriptions the connection counter counts.
C27_FanOutBounded ==
  /\ Forwarding <= MAX_CONNECTIONS
  /\ Forwarding <= connection_count
\* the part of C27 the code keeps: the bound for the connections whose
\* handle_ws has not unsubscribed
C27_HeldFanOutBounded ==
  /\ ForwardingHeld <= MAX_CONNECTIONS
  /\ ForwardingHeld <= connection_count
\* every place is taken by a connection that forwards
C27_WitnessFull ==
  /\ ForwardingHeld = MAX_CONNECTIONS
  /\ connection_count = MAX_CONNECTIONS
  /\ \E c \in DOMAIN conn : conn[c].send = "recv" /\ conn[c].unsubs = 0

\* ------------------------------------------------------------ the requests
\* A path is the sequence of its characters; a request is its client ip
\* (the first entry of x-forwarded-for), its path and its key parameter.
UPPER == <<"A", "B", "C", "D", "E", "F", "G", "H", "I", "J", "K", "L", "M", "N", "O", "P", "Q", "R", "S", "T", "U", "V", "W", "X", "Y", "Z">>
LOWER == <<"a", "b", "c", "d", "e", "f", "g", "h", "i", "j", "k", "l", "m", "n", "o", "p", "q", "r", "s", "t", "u", "v", "w", "x", "y", "z">>
to_lowercase(p) ==
  [i \in 1..Len(p) |->
     IF \E k \in 1..Len(UPPER) : UPPER[k] = p[i]
     THEN LOWER[CHOOSE k \in 1..Len(UPPER) : UPPER[k] = p[i]]
     ELSE p[i]]
starts_with(p, s) == Len(p) >= Len(s) /\ SubSeq(p, 1, Len(s)) = s
contains(p, s) ==
  \E i \in 1..(Len(p) - Len(s) + 1) : SubSeq(p, i, i + Len(s) - 1) = s

\* config.rs, security.rs
SUSPICIOUS_PATHS ==
  {<<"/", "a", "d", "m", "i", "n">>,
   <<"/", "l", "o", "g", "i", "n">>,
   <<"/", "w", "p", "-", "a", "d", "m", "i", "n">>,
   <<"/", "p", "h", "p", "m", "y", "a", "d", "m", "i", "n">>,
   <<"/", ".", "e", "n", "v">>,
   <<"/", "c", "o", "n", "f", "i", "g">>,
   <<"/", "a", "p", "i", "/", "a", "d", "m", "i", "n">>,
   <<"/", "a", "d", "m", "i", "n", "i", "s", "t", "r", "a", "t", "o", "r">>,
   <<"/", "w", "p", "-", "l", "o", "g", "i", "n">>,
   <<"/", "b", "a", "c", "k", "u", "p">>,
   <<"/", ".", "g", "i", "t">>,
   <<"/", "s", "h", "e", "l", "l">>,
   <<"/", "c", "m", "d">>,
   <<"/", "e", "x", "e", "c">>,
   <<"/", "e", "v", "a", "l">>,
   <<"/", "s", "y", "s", "t", "e", "m">>,
   <<"/", "p", "a", "s", "s", "w", "d">>,
   <<"/", "e", "t", "c">>}
CONTROL_PREFIX == <<"/", "a", "t", "u", "r", "t">>
STATIC_PATHS ==
  {<<"/">>, <<"/", "h", "e", "a", "l", "t", "h">>,
   <<"/", "a", "p", "i", "/", "s", "t", "a", "t", "e">>,
   <<"/", "w", "s">>}
SECRET_KEY == "indonesia"
RETRY_AFTER == 60

is_suspicious_any(path) ==
  \E s \in SUSPICIOUS_PATHS : contains(to_lowercase(path), s)
is_suspicious(path) ==
  LET p == to_lowercase(path)
  IN IF starts_with(p, CONTROL_PREFIX) THEN FALSE
     ELSE \E s \in SUSPICIOUS_PATHS : contains(p, s)

whitelisted_exact(path) == path \in STATIC_PATHS
whitelisted(path) ==
  path \in STATIC_PATHS \/ starts_with(to_lowercase(path), CONTROL_PREFIX)

response_429_bare == [status |-> 429, retry_after |-> Nothing]
response_429 == [status |-> 429, retry_after |-> Some(RETRY_AFTER)]
\* a response that carries no Retry-After header
response(status) == [status |-> status, retry_after |-> Nothing]

\* handlers.rs: the router. "/aturTS/:value" takes one non-empty segment.
SET_LIMIT_ROUTE == <<"/", "a", "t", "u", "r", "T", "S", "/">>
route(path) ==
  IF path \in STATIC_PATHS THEN "static"
  ELSE IF /\ starts_with(path, SET_LIMIT_ROUTE)
          /\ Len(path) > Len(SET_LIMIT_ROUTE)
          /\ \A i \in (Len(SET_LIMIT_ROUTE) + 1)..Len(path) : path[i] /= "/"
       THEN "set_limit"
       ELSE "catch_all"
\* the :value segment of a set_limit path
ValueOf(path) == SubSeq(path, Len(SET_LIMIT_ROUTE) + 1, Len(path))

\* str::parse::<i64>: an optional sign and decimal digits that fit 64 bits.
\* Up to 18 digits always fit; a longer value is taken as overflowing.
DIGITS == <<"0", "1", "2", "3", "4", "5", "6", "7", "8", "9">>
RECURSIVE DigitsValue(_)
DigitsValue(s) ==
  IF s = <<>> THEN 0
  ELSE 10 * DigitsValue(SubSeq(s, 1, Len(s) - 1))
       + (CHOOSE k \in 1..10 : DIGITS[k] = s[Len(s)]) - 1
parse_i64(s) ==
  LET signed == s /= <<>> /\ s[1] \in {"+", "-"}
      body == IF signed THEN Tail(s) ELSE s
      neg == signed /\ s[1] = "-"
  IN IF body = <<>> \/ \E i \in 1..Len(body) : \A k \in 1..10 : DIGITS[k] /= body[i]
     THEN Nothing
     ELSE IF Len(body) > 18 THEN Nothing
     ELSE Some(IF neg THEN 0 - DigitsValue(body) ELSE DigitsValue(body))

ADMIN == <<"a", "d", "m", "i", "n">>
CONFIG == <<"c", "o", "n", "f", "i", "g">>
admin_like_never(p) == FALSE
admin_like(p) ==
  ~starts_with(p, CONTROL_PREFIX) /\ (contains(p, ADMIN) \/ contains(p, CONFIG))

\* the paths of the requests followed, and for each of them what the code
\* computes from the path alone
ReqIp == "a"
P_HEALTH == <<"/", "h", "e", "a", "l", "t", "h">>
P_SET_9 == <<"/", "a", "t", "u", "r", "T", "S", "/", "9">>
P_SET_HIGH == <<"/", "a", "t", "u", "r", "T", "S", "/", "8", "8", "8", "8", "9">>
P_SET_X == <<"/", "a", "t", "u", "r", "T", "S", "/", "x">>
P_ENV == <<"/", ".", "E", "n", "v">>
P_XADMIN == <<"/", "x", "a", "d", "m", "i", "n">>
P_X == <<"/", "x">>
P_CTL_ADMIN == <<"/", "a", "t", "u", "r", "t", "/", "a", "d", "m", "i", "n">>
P_FAVICON == <<"/", "f", "a", "v", "i", "c", "o", "n", ".", "i", "c", "o">>
ControlPaths == {P_SET_9, P_SET_HIGH, P_SET_X}
OtherPaths == {P_HEALTH, P_ENV, P_XADMIN, P_X, P_CTL_ADMIN}
PathFacts ==
  [p \in ControlPaths \cup OtherPaths \cup {P_FAVICON} |->
     [whitelisted |-> whitelisted(p),
      suspicious |-> is_suspicious(p),
      route |-> route(p),
      admin_like |-> admin_like(to_lowercase(p)),
      value |-> IF route(p) = "set_limit" THEN parse_i64(ValueOf(p)) ELSE Nothing]]

\* security_middleware for a request of ip for path: the response it gives
\* itself (Nothing when it hands the request to next.run), the stage that
\* decided, the verdict of the limiter when it was asked, and the tables
\* it leaves
security_middleware(ip, path) ==
  LET b == is_ip_blocked(blocked_ips, failed_attempts, ip, now)
      c == check(requests, last_cleanup, ip, now)
      f == record_failed_attempt(b.blocked, b.failed, ip, 3, now)
      asked == ~b.result /\ ~PathFacts[path].whitelisted
      base == [resp |-> Nothing, by |-> "next",
               verdict |-> IF asked THEN Some(c.status) ELSE Nothing,
               found |-> IF asked THEN c.found ELSE 0,
               blocked |-> b.blocked, failed |-> b.failed,
               requests |-> IF asked THEN c.requests ELSE requests,
               last_cleanup |-> IF asked THEN c.last_cleanup ELSE last_cleanup]
  IN IF b.result
     THEN [base EXCEPT !.resp = Some(response_429), !.by = "ban"]
     ELSE IF asked /\ c.status = RL_BLOCKED
     THEN [base EXCEPT !.resp = Some(response_429), !.by = "limiter",
                       !.blocked = block_ip(b.blocked, ip, RL_BLOCK_SECS, now)]
     ELSE IF asked /\ c.status = RL_LIMITED
     THEN [base EXCEPT !.resp = Some(response_429), !.by = "limiter"]
     ELSE IF PathFacts[path].suspicious
     THEN [base EXCEPT !.resp = Some(response(403)), !.by = "denylist",
                       !.blocked = f.blocked, !.failed = f.failed]
     ELSE base

out_of_range_loose(v) == v < MIN_LIMIT \/ v > MAX_LIMIT + 1
out_of_range(v) == v < MIN_LIMIT \/ v > MAX_LIMIT

\* set_limit up to its stores, run with the tables blocked and failed: the
\* status of the response, the check that decided, the weight of the failed
\* attempt it records (0: none), the value it goes on to store, and the
\* tables is_ip_blocked leaves
set_limit(ip, path, key, blocked, failed) ==
  LET b == is_ip_blocked(blocked, failed, ip, now)
      v == PathFacts[path].value
      base == [status |-> 200, by |-> "ok", weight |-> 0, store |-> Nothing,
               blocked |-> b.blocked, failed |-> b.failed]
  IN IF b.result THEN [base EXCEPT !.status = 429, !.by = "ban"]
     ELSE IF key = Nothing \/ key[1] = ""
     THEN [base EXCEPT !.status = 400, !.by = "key", !.weight = 2]
     ELSE IF key[1] /= SECRET_KEY
     THEN [base EXCEPT !.status = 403, !.by = "key", !.weight = 1]
     ELSE IF v = Nothing
     THEN [base EXCEPT !.status = 400, !.by = "value", !.weight = 1]
     ELSE IF now - last_successful_call < RATE_LIMIT_SECONDS
     THEN [base EXCEPT !.status = 429, !.by = "cooldown"]
     ELSE IF out_of_range(v[1])
     THEN [base EXCEPT !.status = 400, !.by = "range"]
     ELSE [base EXCEPT !.store = v]

\* catch_all, the fallback of the router
catch_all(ip, path, blocked, failed) ==
  LET b == is_ip_blocked(blocked, failed, ip, now)
      base == [status |-> 404, by |-> "fallback", weight |-> 1, store |-> Nothing,
               blocked |-> b.blocked, failed |-> b.failed]
  IN IF b.result THEN [base EXCEPT !.status = 429, !.by = "ban", !.weight = 0]
     ELSE IF PathFacts[path].admin_like
     THEN [base EXCEPT !.status = 403, !.weight = 2]
     ELSE base

\* the handler the router runs for a request; index and health answer 200
\* and touch nothing
handler(q, blocked, failed) ==
  CASE PathFacts[q.path].route = "set_limit" ->
         set_limit(q.ip, q.path, q.key, blocked, failed)
    [] PathFacts[q.path].route = "catch_all" ->
         catch_all(q.ip, q.path, blocked, failed)
    [] OTHER -> [status |-> 200, by |-> "ok", weight |-> 0, store |-> Nothing,
                 blocked |-> blocked, failed |-> failed]

\* next.run(req): the handler runs to its response
RunHandler(q, blocked, failed, verdict) ==
  LET h == handler(q, blocked, failed)
      f == IF h.weight = 0 THEN [blocked |-> h.blocked, failed |-> h.failed]
           ELSE record_failed_attempt(h.blocked, h.failed, q.ip, h.weight, now)
  IN /\ blocked_ips' = f.blocked
     /\ failed_attempts' = f.failed
     /\ IF h.store = Nothing
        THEN UNCHANGED <<configVars, cacheVars, wsVars>>
        ELSE /\ limit_bulan' = h.store[1]
             /\ last_successful_call' = now
             /\ InvalidateAndBroadcast(history, usd_idr_history, h.store[1])
     /\ ret' = [op |-> PathFacts[q.path].route, req |-> q,
                resp |-> response(h.status), by |-> h.by, verdict |-> verdict]

\* ------------------------------------------------------------ SpecReq
\* Requests of one client through security_middleware and the router, one
\* at a time. GET /api/state and /ws are followed in SpecCache and SpecWs.
Keys == {Nothing, Some(""), Some("indonesiA"), Some(SECRET_KEY)}
Requests ==
  {[ip |-> ReqIp, path |-> P_SET_9, key |-> k] : k \in Keys}
  \cup {[ip |-> ReqIp, path |-> p, key |-> Some(SECRET_KEY)] : p \in {P_SET_HIGH, P_SET_X}}
  \cup {[ip |-> ReqIp, path |-> p, key |-> Nothing] : p \in OtherPaths}
\* A burst: requests of the client that are in flight together on the
\* worker threads of the runtime, past the limiter and not yet at their
\* handler. They are a browser's requests for its icon; while they are in
\* flight the client sends the requests of BurstFollowers.
BurstRequest == [ip |-> ReqIp, path |-> P_FAVICON, key |-> Nothing]
BurstFollowers == {q \in Requests : q.path \in {P_X, P_HEALTH}}

\* the instants of a run, in seconds after its start
ReqOffsets == {RATE_LIMIT_SECONDS, BLOCK_DURATION_SECS}

\* The runs start with one websocket client subscribed, and either with an
\* empty limiter or in a burst of RATE_LIMIT_MAX_REQUESTS requests that
\* have passed the limiter in this second.
InitReqSpec ==
  /\ InitState /\ InitConfig /\ InitCache /\ InitGuard /\ InitClock
  /\ connection_count = 1
  /\ tx = [EmptyTx EXCEPT !.rx_cnt = 1]
  /\ appended = [price |-> <<>>, usd |-> <<>>]
  /\ ret = NoRet
  /\ ban_src = EmptyMap
  /\ task = EmptyMap
  /\ cg = InitCg
  /\ conn = EmptyMap
  /\ bg = 1
  /\ hb_due = FALSE
  /\ \/ /\ InitRL
        /\ rl_seq = EmptyMap
        /\ pending = EmptyBag
     \/ /\ requests = MapPut(EmptyMap, ReqIp, Copies(RATE_LIMIT_MAX_REQUESTS, StartTime))
        /\ last_cleanup = StartTime
        /\ rl_seq = MapPut(EmptyMap, ReqIp,
                           [start |-> StartTime, calls |-> RATE_LIMIT_MAX_REQUESTS])
        /\ pending = [x \in {BurstRequest} |-> RATE_LIMIT_MAX_REQUESTS]

\* request q is served: security_middleware, and the handler if the
\* middleware hands the request on
ReqServe(q) ==
  LET m == security_middleware(q.ip, q.path)
  IN /\ pending /= EmptyBag => q \in BurstFollowers
     /\ (m.verdict /= Nothing /\ q.ip \in DOMAIN rl_seq) =>
          rl_seq[q.ip].calls < MaxChecks
     /\ requests' = m.requests
     /\ last_cleanup' = m.last_cleanup
     /\ rl_seq' = IF m.verdict = Nothing THEN rl_seq
                  ELSE MapPut(rl_seq, q.ip, SeqAfter(rl_seq, q.ip, m.found, now))
     /\ IF m.resp = Nothing
        THEN RunHandler(q, m.blocked, m.failed, m.verdict)
        ELSE /\ blocked_ips' = m.blocked
             /\ failed_attempts' = m.failed
             /\ ret' = [op |-> "security_middleware", req |-> q, resp |-> m.resp[1],
                        by |-> m.by, verdict |-> m.verdict]
             /\ UNCHANGED <<configVars, cacheVars, wsVars>>
     /\ UNCHANGED <<stateVars, clockVars, appended, ban_src, pending, concVars>>

\* a request of the burst reaches its handler
ReqHandle(q) ==
  /\ BagIn(q, pending)
  /\ RunHandler(q, blocked_ips, failed_attempts, Nothing)
  /\ pending' = pending (-) SetToBag({q})
  /\ UNCHANGED <<stateVars, rlVars, clockVars, appended, rl_seq, ban_src, concVars>>

\* the clock moves on; a run that starts in a burst stays in its second
ReqTick ==
  /\ pending = EmptyBag
  /\ Len(FailedOf(requests, ReqIp)) < RATE_LIMIT_MAX_REQUESTS
  /\ \E o \in ReqOffsets :
       /\ StartTime + o > now
       /\ o <= MaxReqSpan
       /\ Tick(StartTime + o - now)

NextReq ==
  \/ \E q \in Requests : ReqServe(q)
  \/ ReqHandle(BurstRequest)
  \/ ReqTick
SpecReq == InitReqSpec /\ [][NextReq]_vars

\* ------------------------------------------------------------ the claims of SpecReq
\* the step serves request q, and the step runs the handler of a request
\* of the burst
Serves(q) == ret'.op /= None /\ ret'.req = q /\ ReqServe(q)
Handles(q) == ret'.op /= None /\ ret'.req = q /\ ReqHandle(q)
\* ip has no ban in force
Unbanned(ip) == ip \notin DOMAIN blocked_ips \/ now >= blocked_ips[ip]
\* the entries of ip's failed-attempt record stamped with the current time
FailedNow(failed, ip) == CountAt(FailedOf(failed, ip), now)
\* the paths as the claims class them
ControlPrefixed ==
  {p \in DOMAIN PathFacts : starts_with(to_lowercase(p), CONTROL_PREFIX)}
ClaimedWhitelist ==
  {p \in DOMAIN PathFacts : p \in STATIC_PATHS} \cup ControlPrefixed
ClaimedDenylisted ==
  {p \in DOMAIN PathFacts :
     \E s \in SUSPICIOUS_PATHS : contains(to_lowercase(p), s)}
ClaimedAdminLike ==
  {p \in DOMAIN PathFacts \ ControlPrefixed :
     contains(to_lowercase(p), ADMIN) \/ contains(to_lowercase(p), CONFIG)}

\* C11: a request of an ip with an unexpired ban is answered 429 with a
\* Retry-After header by the ban check of security_middleware, and serving
\* it changes nothing: the limiter's records, the failed-attempt table, the
\* ban table, the config, the histories and the cache are as they were,
\* the limiter is not asked, and the request reaches neither the denylist
\* check nor a handler.
C11_BannedRejected ==
  [][\A q \in Requests :
       (Serves(q) /\ ~Unbanned(q.ip)) =>
         /\ ret'.op = "security_middleware"
         /\ ret'.by = "ban"
         /\ ret'.resp.status = 429
         /\ ret'.resp.retry_after /= Nothing
         /\ ret'.verdict = Nothing
         /\ UNCHANGED <<rlVars, guardVars, configVars, stateVars, cacheVars,
                        wsVars, pending>>
    ]_vars
\* a request is turned away by a ban that five failed attempts set
C11_Witness ==
  /\ ret.op = "security_middleware"
  /\ ret.by = "ban"
  /\ ~Unbanned(ret.req.ip)
  /\ Len(FailedOf(failed_attempts, ret.req.ip)) >= MAX_FAILED_ATTEMPTS
\* and so is a request for the control endpoint with the valid key
C11_WitnessControl ==
  /\ ret.op = "security_middleware"
  /\ ret.by = "ban"
  /\ ret.req.path = P_SET_9
  /\ ret.req.key = Some(SECRET_KEY)

\* C12: a request for a whitelisted path ("/", "/health", "/api/state",
\* "/ws" or a path under the control prefix) from an ip without a ban in
\* force does not reach RateLimiter::check: the limiter's records are as
\* they were, the request is not answered by the limiter, and it leaves no
\* ban of RL_BLOCK_SECS behind, however many timestamps the key has.
C12_WhitelistBypass ==
  [][\A q \in Requests :
       (Serves(q) /\ Unbanned(q.ip) /\ q.path \in ClaimedWhitelist) =>
         /\ UNCHANGED rlVars
         /\ ret'.verdict = Nothing
         /\ ret'.by /= "limiter"
         /\ ~(/\ q.ip \in DOMAIN blocked_ips'
              /\ blocked_ips'[q.ip] = now + RL_BLOCK_SECS)
    ]_vars
\* a whitelisted request is served while the key's record is full
C12_Witness ==
  /\ ret.op = "static"
  /\ ret.req.path \in ClaimedWhitelist
  /\ ret.resp.status = 200
  /\ Len(FailedOf(requests, ret.req.ip)) = RATE_LIMIT_MAX_REQUESTS
\* a request under the control prefix reaches set_limit
C12_WitnessControl ==
  /\ ret.op = "set_limit"
  /\ ret.resp.status = 200
  /\ ret.req.ip \notin DOMAIN requests

\* C13: for a request from an ip without a ban in force that the limiter
\* does not reject: a path whose lower-cased form contains a denylist
\* fragment and does not start with the control prefix is answered 403 by
\* the middleware and adds exactly 3 entries to the ip's failed-attempt
\* record, so that the second such request within 60 s bans the ip; a path
\* that starts with the control prefix is not matched against the denylist
\* and goes on to its handler, the middleware recording nothing.
C13_DenylistPenalty ==
  [][\A q \in Requests :
       (Serves(q) /\ Unbanned(q.ip) /\ ret'.by /= "limiter") =>
         LET had == FailedNow(failed_attempts, q.ip)
             young == Len(Young(FailedOf(failed_attempts, q.ip), now))
         IN /\ (q.path \in ClaimedDenylisted \ ControlPrefixed) =>
                 /\ ret'.op = "security_middleware"
                 /\ ret'.by = "denylist"
                 /\ ret'.resp.status = 403
                 /\ FailedNow(failed_attempts', q.ip) = had + 3
                 /\ young >= 3 =>
                      /\ q.ip \in DOMAIN blocked_ips'
                      /\ blocked_ips'[q.ip] = now + BLOCK_DURATION_SECS
            /\ (q.path \in ControlPrefixed) =>
                 /\ ret'.op /= "security_middleware"
                 /\ FailedNow(failed_attempts', q.ip) - had < 3
    ]_vars
\* the second denylisted request, five seconds after the first, has set
\* the ban
C13_Witness ==
  /\ ret.op = "security_middleware"
  /\ ret.by = "denylist"
  /\ ret.req.path = P_ENV
  /\ Len(FailedOf(failed_attempts, ret.req.ip)) = 6
  /\ failed_attempts[ret.req.ip][1] < failed_attempts[ret.req.ip][4]
  /\ ret.req.ip \in DOMAIN blocked_ips
  /\ blocked_ips[ret.req.ip] = now + BLOCK_DURATION_SECS
\* a path under the control prefix that holds a denylist fragment reaches
\* the fallback handler
C13_WitnessControl ==
  /\ ret.op = "catch_all"
  /\ ret.req.path \in ClaimedDenylisted \cap ControlPrefixed
  /\ ret.resp.status = 404

\* C14 (as claimed): a set_limit request whose key is absent, empty or not
\* the secret is rejected, leaves the limit, the cache version and the
\* last-success time as they were, and adds exactly 1 entry to the ip's
\* failed-attempt record, for the absent key as for the wrong one.
C14_BadKeyPenalty ==
  [][\A q \in Requests :
       (/\ Serves(q)
        /\ ret'.op = "set_limit"
        /\ q.key = Nothing \/ q.key[1] /= SECRET_KEY) =>
         /\ ret'.resp.status >= 400
         /\ UNCHANGED <<configVars, cache_version>>
         /\ FailedNow(failed_attempts', q.ip) = FailedNow(failed_attempts, q.ip) + 1
    ]_vars
\* the part of C14 the code keeps: the rejection without change, with 1
\* entry for a wrong key and 2 for an absent or empty one
C14_BadKeyRejected ==
  [][\A q \in Requests :
       (/\ Serves(q)
        /\ ret'.op = "set_limit"
        /\ q.key = Nothing \/ q.key[1] /= SECRET_KEY) =>
         /\ ret'.resp.status >= 400
         /\ UNCHANGED <<configVars, cache_version>>
         /\ FailedNow(failed_attempts', q.ip) =
              FailedNow(failed_attempts, q.ip)
                + (IF q.key = Nothing \/ q.key[1] = "" THEN 2 ELSE 1)
    ]_vars

\* C15 (as claimed): a set_limit request with the valid key that comes
\* less than RATE_LIMIT_SECONDS after the last successful change is
\* rejected and changes nothing, whatever its value segment: the limit,
\* the cache version, the last-success time, the failed-attempt table and
\* the ban table are as they were and nothing is broadcast.
C15_CooldownNoPenalty ==
  [][\A q \in Requests :
       (/\ Serves(q)
        /\ ret'.op = "set_limit"
        /\ q.key = Some(SECRET_KEY)
        /\ now - last_successful_call < RATE_LIMIT_SECONDS) =>
         /\ ret'.resp.status >= 400
         /\ UNCHANGED <<configVars, cache_version, guardVars, tx>>
    ]_vars
\* the part of C15 the code keeps: the same for a value segment that
\* parses as an integer
C15_CooldownNumeric ==
  [][\A q \in Requests :
       (/\ Serves(q)
        /\ ret'.op = "set_limit"
        /\ q.key = Some(SECRET_KEY)
        /\ PathFacts[q.path].value /= Nothing
        /\ now - last_successful_call < RATE_LIMIT_SECONDS) =>
         /\ ret'.resp.status = 429
         /\ ret'.by = "cooldown"
         /\ UNCHANGED <<configVars, cache_version, guardVars, tx>>
    ]_vars

\* C16: limit_bulan is always within MIN_LIMIT..MAX_LIMIT, and a set_limit
\* request with the valid key and a value outside that range is rejected
\* and leaves the limit, the cache version and the last-success time as
\* they were.
C16_LimitInRange ==
  /\ [](limit_bulan >= MIN_LIMIT /\ limit_bulan <= MAX_LIMIT)
  /\ [][\A q \in Requests :
          (/\ Serves(q)
           /\ ret'.op = "set_limit"
           /\ q.key = Some(SECRET_KEY)
           /\ PathFacts[q.path].value /= Nothing
           /\ \/ PathFacts[q.path].value[1] < MIN_LIMIT
              \/ PathFacts[q.path].value[1] > MAX_LIMIT) =>
            /\ ret'.resp.status >= 400
            /\ UNCHANGED <<configVars, cache_version>>
       ]_vars
\* a request for MAX_LIMIT + 1, made once the cooldown of an earlier change
\* has passed, is rejected by the range check
C16_Witness ==
  /\ ret.op = "set_limit"
  /\ ret.req.path = P_SET_HIGH
  /\ ret.by = "range"
  /\ ret.resp.status = 400
  /\ limit_bulan = 9
  /\ now - last_successful_call >= RATE_LIMIT_SECONDS

\* C19: a request that reaches catch_all from an ip without a ban in force
\* is recorded as a failed attempt of its ip and rejected, with 403 when
\* its lower-cased path contains "admin" or "config" and does not start
\* with the control prefix and with 404 otherwise; from an ip with a ban
\* in force it is answered 429 and nothing is recorded.
C19_Fallback ==
  [][\A q \in Requests \cup {BurstRequest} :
       ((Serves(q) \/ Handles(q)) /\ ret'.op = "catch_all") =>
         IF Unbanned(q.ip)
         THEN /\ FailedNow(failed_attempts', q.ip) > FailedNow(failed_attempts, q.ip)
              /\ ret'.resp.status = (IF q.path \in ClaimedAdminLike THEN 403 ELSE 404)
         ELSE /\ ret'.resp.status = 429
              /\ UNCHANGED guardVars
    ]_vars
\* a path that holds "admin" past the denylist is answered 403
C19_Witness ==
  /\ ret.op = "catch_all"
  /\ ret.req.path \in ClaimedAdminLike
  /\ ret.resp.status = 403
  /\ Len(FailedOf(failed_attempts, ret.req.ip)) >= 2
\* a path that no route matches is answered 404
C19_WitnessNotFound ==
  /\ ret.op = "catch_all"
  /\ ret.req.path = P_X
  /\ ret.resp.status = 404
\* a request that passed the middleware finds its ip banned at the handler
C19_WitnessBanned ==
  /\ ret.op = "catch_all"
  /\ ret.resp.status = 429
  /\ ~Unbanned(ret.req.ip)

\* C20 (as claimed): for a path that is not whitelisted, from an ip without
\* a ban in force, the limiter is asked and its verdict handled: Blocked
\* bans the ip for RL_BLOCK_SECS and rejects, Limited rejects and leaves
\* the ban table and the failed-attempt table as they were, Ok lets the
\* request go on to the denylist check; so a client whose checks in one
\* window go past RATE_LIMIT_STRICT_MAX is banned.
C20_LimiterEscalation ==
  [][\A q \in Requests :
       (Serves(q) /\ Unbanned(q.ip) /\ q.path \notin ClaimedWhitelist) =>
         /\ ret'.verdict /= Nothing
         /\ ret'.verdict = Some(RL_BLOCKED) =>
              /\ ret'.resp.status = 429
              /\ blocked_ips'[q.ip] = now + RL_BLOCK_SECS
         /\ ret'.verdict = Some(RL_LIMITED) =>
              /\ ret'.resp.status = 429
              /\ ret'.by = "limiter"
              /\ UNCHANGED guardVars
         /\ ret'.verdict = Some(RL_OK) => ret'.by /= "limiter"
         /\ rl_seq'[q.ip].calls > RATE_LIMIT_STRICT_MAX =>
              /\ q.ip \in DOMAIN blocked_ips'
              /\ now < blocked_ips'[q.ip]
    ]_vars
\* the part of C20 the code keeps: the handling of the verdicts it gives
C20_VerdictHandling ==
  [][\A q \in Requests :
       (Serves(q) /\ Unbanned(q.ip) /\ q.path \notin ClaimedWhitelist) =>
         /\ ret'.verdict \in {Some(RL_OK), Some(RL_LIMITED)}
         /\ ret'.verdict = Some(RL_LIMITED) =>
              /\ ret'.resp.status = 429
              /\ ret'.by = "limiter"
              /\ UNCHANGED guardVars
         /\ ret'.verdict = Some(RL_OK) => ret'.by /= "limiter"
    ]_vars
\* the 121st check of a window is rejected as the 61st was, and no ban is set
C20_NoEscalation ==
  (/\ ret.op = "security_middleware"
   /\ ret.by = "limiter"
   /\ rl_seq[ret.req.ip].calls > RATE_LIMIT_STRICT_MAX) =>
     /\ ret.verdict = Some(RL_LIMITED)
     /\ ret.req.ip \notin DOMAIN blocked_ips

\* ------------------------------------------------------------ SpecSet
\* set_limit from the cooldown check on, run step by step by concurrent
\* request tasks whose key and value have passed the earlier checks.
SetTasks == {"s1", "s2"}
\* the steps of the clock
SetSteps == {1, RATE_LIMIT_SECONDS}
\* the locals of a task: now of set_limit, the requests it has
\* made and the times of those that succeeded
SetIdle == [pc |-> "idle", now |-> 0, reqs |-> 0, wins |-> <<>>]

\* a - b < n on u64: a subtraction that overflows wraps to a value above
\* every n of the code (where it does not panic)
within_loose(a, b, n) == a - b < n
within(a, b, n) == a >= b /\ a - b < n

InitSetSpec ==
  /\ InitState /\ InitConfig /\ InitCache /\ InitGuard /\ InitRL /\ InitWs
  /\ InitClock
  /\ appended = [price |-> <<>>, usd |-> <<>>]
  /\ ret = NoRet
  /\ rl_seq = EmptyMap
  /\ ban_src = EmptyMap
  /\ pending = EmptyMap
  /\ task = [t \in SetTasks |-> SetIdle]
  /\ cg = InitCg
  /\ conn = EmptyMap
  /\ bg = 0
  /\ hb_due = FALSE

\* utils::current_timestamp()
SetNow(t) ==
  /\ task[t].pc = "idle"
  /\ task[t].reqs < MaxSets
  /\ task' = [task EXCEPT ![t].pc = "load", ![t].now = now, ![t].reqs = @ + 1]
  /\ UNCHANGED <<stateVars, configVars, cacheVars, guardVars, rlVars, wsVars,
                 clockVars, appended, ret, rl_seq, ban_src, pending, cg,
                 connVars>>

\* last_successful_call.load() and the cooldown test. The value is inside
\* the range, so a request that passes goes on to the stores. A request
\* whose now is older than last either panics on the subtraction or passes.
SetLoad(t) ==
  /\ task[t].pc = "load"
  /\ LET last == last_successful_call
     IN IF within(task[t].now, last, RATE_LIMIT_SECONDS)
        THEN /\ task' = [task EXCEPT ![t].pc = "idle"]
             /\ ret' = [op |-> "set_limit", task |-> t, status |-> 429]
        ELSE \/ /\ task' = [task EXCEPT ![t].pc = "store"]
                /\ ret' = ret
             \/ /\ task[t].now < last
                /\ task' = [task EXCEPT ![t].pc = "idle"]
                /\ ret' = [op |-> "set_limit", task |-> t, status |-> "panic"]
  /\ UNCHANGED <<stateVars, configVars, cacheVars, guardVars, rlVars, wsVars,
                 clockVars, appended, rl_seq, ban_src, pending, cg, connVars>>

\* limit_bulan.store(int_value)
SetStore(t) ==
  /\ task[t].pc = "store"
  /\ \E v \in LimitValues :
       /\ ~out_of_range(v)
       /\ limit_bulan' = v
  /\ task' = [task EXCEPT ![t].pc = "stamp"]
  /\ UNCHANGED <<stateVars, last_successful_call, cacheVars, guardVars,
                 rlVars, wsVars, clockVars, appended, ret, rl_seq, ban_src,
                 pending, cg, connVars>>

\* last_successful_call.store(now): the request has succeeded at its now
SetStamp(t) ==
  /\ task[t].pc = "stamp"
  /\ last_successful_call' = task[t].now
  /\ task' = [task EXCEPT ![t].pc = "finish", ![t].wins = Append(@, task[t].now)]
  /\ UNCHANGED <<stateVars, limit_bulan, cacheVars, guardVars, rlVars, wsVars,
                 clockVars, appended, ret, rl_seq, ban_src, pending, cg,
                 connVars>>

\* invalidate_cache, get_cached_state, broadcast and the response
SetFinish(t) ==
  /\ task[t].pc = "finish"
  /\ InvalidateAndBroadcast(history, usd_idr_history, limit_bulan)
  /\ task' = [task EXCEPT ![t].pc = "idle"]
  /\ ret' = [op |-> "set_limit", task |-> t, status |-> 200]
  /\ UNCHANGED <<stateVars, configVars, guardVars, rlVars, clockVars,
                 appended, rl_seq, ban_src, pending, cg, connVars>>

SetTick == \E d \in SetSteps : now + d <= StartTime + MaxSetSpan /\ Tick(d)

NextSet ==
  \/ \E t \in SetTasks :
       \/ SetNow(t)
       \/ SetLoad(t)
       \/ SetStore(t)
       \/ SetStamp(t)
       \/ SetFinish(t)
  \/ SetTick
SpecSet == InitSetSpec /\ [][NextSet]_vars

\* the successes of the run: the task, and the index in its list
Wins == {<<t, i>> \in SetTasks \X (1..MaxSets + 1) : i <= Len(task[t].wins)}
WinAt(w) == task[w[1]].wins[w[2]]

\* C21 (as claimed): the times of any two successful changes, made by the
\* same request task or by two that run concurrently, are at least
\* RATE_LIMIT_SECONDS apart.
C21_Cooldown ==
  \A w1 \in Wins, w2 \in Wins :
    w1 /= w2 => Abs(WinAt(w1) - WinAt(w2)) >= RATE_LIMIT_SECONDS
\* the part of C21 the code keeps: the same while only one task has made
\* requests
C21_CooldownAlone ==
  (\E t \in SetTasks : \A u \in SetTasks \ {t} : task[u].reqs = 0) =>
    \A w1 \in Wins, w2 \in Wins :
      w1 /= w2 => Abs(WinAt(w1) - WinAt(w2)) >= RATE_LIMIT_SECONDS
\* one task has succeeded twice
C21_WitnessAlone ==
  \E t \in SetTasks :
    /\ Len(task[t].wins) = 2
    /\ \A u \in SetTasks \ {t} : task[u].reqs = 0

\* ------------------------------------------------------------ SpecSweep
\* RateLimiter::check step by step, run by concurrent request tasks: the
\* read of the clock, cleanup's load and compare-and-swap, the sweep entry
\* by entry and removal by removal, and the part of check that holds the
\* lock of the key's entry.
SweepTasks == {"k1", "k2"}
SweepKeys == {"a"}
\* the steps of the clock
SweepSteps == {CLEANUP_INTERVAL, RATE_LIMIT_WINDOW}
\* the locals of a task: now and ip of check, last of cleanup, the keys the
\* sweep has still to visit and its to_remove; swept tells that the
\* compare-and-swap of the check succeeded, checks counts the checks made
SweepIdle ==
  [pc |-> "idle", now |-> 0, ip |-> None, last |-> 0, todo |-> {},
   to_remove |-> {}, swept |-> FALSE, checks |-> 0]

InitSweepSpec ==
  /\ InitState /\ InitConfig /\ InitCache /\ InitGuard /\ InitRL /\ InitWs
  /\ InitClock
  /\ appended = [price |-> <<>>, usd |-> <<>>]
  /\ ret = NoRet
  /\ rl_seq = EmptyMap
  /\ ban_src = EmptyMap
  /\ pending = EmptyMap
  /\ task = [t \in SweepTasks |-> SweepIdle]
  /\ cg = InitCg
  /\ conn = EmptyMap
  /\ bg = 0
  /\ hb_due = FALSE

\* check: utils::current_timestamp()
SwNow(t) ==
  /\ task[t].pc = "idle"
  /\ task[t].checks < MaxSweepChecks
  /\ \E ip \in SweepKeys :
       task' = [task EXCEPT ![t] = [SweepIdle EXCEPT !.pc = "load", !.now = now,
                                                     !.ip = ip,
                                                     !.checks = task[t].checks + 1]]
  /\ UNCHANGED <<stateVars, configVars, cacheVars, guardVars, rlVars, wsVars,
                 clockVars, appended, ret, rl_seq, ban_src, pending, cg,
                 connVars>>

\* cleanup: last_cleanup.load() and the test of the interval. A caller
\* whose now is older than last either panics on the subtraction or goes
\* on to the compare-and-swap.
SwLoad(t) ==
  /\ task[t].pc = "load"
  /\ LET last == last_cleanup
     IN IF within(task[t].now, last, CLEANUP_INTERVAL)
        THEN /\ task' = [task EXCEPT ![t].pc = "entry", ![t].last = last]
             /\ ret' = ret
        ELSE \/ /\ task' = [task EXCEPT ![t].pc = "cas", ![t].last = last]
                /\ ret' = ret
             \/ /\ task[t].now < last
                /\ task' = [task EXCEPT ![t].pc = "idle", ![t].last = last]
                /\ ret' = [op |-> "check", task |-> t, status |-> "panic"]
  /\ UNCHANGED <<stateVars, configVars, cacheVars, guardVars, rlVars, wsVars,
                 clockVars, appended, rl_seq, ban_src, pending, cg, connVars>>

\* cleanup: last_cleanup.compare_exchange(last, now); the winner starts the
\* sweep over the entries of the map
SwCas(t) ==
  /\ task[t].pc = "cas"
  /\ IF last_cleanup = task[t].last
     THEN /\ last_cleanup' = task[t].now
          /\ task' = [task EXCEPT ![t].pc = "visit", ![t].swept = TRUE,
                                  ![t].todo = DOMAIN requests]
     ELSE /\ last_cleanup' = last_cleanup
          /\ task' = [task EXCEPT ![t].pc = "entry"]
  /\ UNCHANGED <<stateVars, configVars, cacheVars, guardVars, requests, wsVars,
                 clockVars, appended, ret, rl_seq, ban_src, pending, cg,
                 connVars>>

\* the sweep's first loop, one entry under its lock: retain, and note the
\* key when the list is left empty
SwVisit(t) ==
  /\ task[t].pc = "visit"
  /\ IF task[t].todo = {}
     THEN /\ task' = [task EXCEPT ![t].pc = "remove"]
          /\ requests' = requests
     ELSE \E k \in task[t].todo :
            IF k \in DOMAIN requests
            THEN LET kept == InWindow(requests[k], task[t].now)
                 IN /\ requests' = MapPut(requests, k, kept)
                    /\ task' = [task EXCEPT ![t].todo = @ \ {k},
                                  ![t].to_remove = IF kept = <<>> THEN @ \cup {k} ELSE @]
            ELSE /\ requests' = requests
                 /\ task' = [task EXCEPT ![t].todo = @ \ {k}]
  /\ UNCHANGED <<stateVars, configVars, cacheVars, guardVars, last_cleanup,
                 wsVars, clockVars, appended, ret, rl_seq, ban_src, pending, cg,
                 connVars>>

\* the sweep's second loop: requests.remove(key) for a key noted
SwRemove(t) ==
  /\ task[t].pc = "remove"
  /\ IF task[t].to_remove = {}
     THEN /\ task' = [task EXCEPT ![t].pc = "entry"]
          /\ requests' = requests
          /\ ret' = ret
     ELSE \E k \in task[t].to_remove :
            /\ requests' = MapDel(requests, k)
            /\ task' = [task EXCEPT ![t].to_remove = @ \ {k}]
            /\ ret' = [op |-> "remove", task |-> t, key |-> k,
                       had |-> FailedOf(requests, k)]
  /\ UNCHANGED <<stateVars, configVars, cacheVars, guardVars, last_cleanup,
                 wsVars, clockVars, appended, rl_seq, ban_src, pending, cg,
                 connVars>>

\* check, under the lock of the key's entry: or_default, retain, the
\* verdict and the push
SwEntry(t) ==
  /\ task[t].pc = "entry"
  /\ LET ip == task[t].ip
         kept == InWindow(FailedOf(requests, ip), task[t].now)
         status == Verdict(Len(kept))
     IN /\ requests' = MapPut(requests, ip,
                              IF status = RL_OK THEN Append(kept, task[t].now)
                              ELSE kept)
        /\ ret' = [op |-> "check", task |-> t, ip |-> ip, status |-> status,
                   at |-> task[t].now]
  /\ task' = [task EXCEPT ![t].pc = "idle"]
  /\ UNCHANGED <<stateVars, configVars, cacheVars, guardVars, last_cleanup,
                 wsVars, clockVars, appended, rl_seq, ban_src, pending, cg,
                 connVars>>

SweepTick == \E d \in SweepSteps : now + d <= StartTime + MaxSweepSpan /\ Tick(d)

NextSweep ==
  \/ \E t \in SweepTasks :
       \/ SwNow(t)
       \/ SwLoad(t)
       \/ SwCas(t)
       \/ SwVisit(t)
       \/ SwRemove(t)
       \/ SwEntry(t)
  \/ SweepTick
SpecSweep == InitSweepSpec /\ [][NextSweep]_vars

\* the tasks that are running the sweep
Sweeping == {t \in DOMAIN task : task[t].pc \in {"visit", "remove"}}
\* the callers that observe the same last_cleanup: at most one of them
\* wins the compare-and-swap
CasOnce ==
  \A t \in DOMAIN task, u \in DOMAIN task :
    (t /= u /\ task[t].swept /\ task[u].swept) => task[t].last /= task[u].last

\* C23 (as claimed): among concurrent check callers that observe the same
\* last-sweep timestamp at most one runs the sweep, at most one sweep is
\* running at any time, and a sweep starts at least CLEANUP_INTERVAL
\* seconds after the one before it.
C23_SweepGuard ==
  /\ [](CasOnce /\ Cardinality(Sweeping) <= 1)
  /\ [][\A t \in DOMAIN task :
          (task[t].pc = "cas" /\ task'[t].pc = "visit") =>
            last_cleanup' - last_cleanup >= CLEANUP_INTERVAL]_vars
\* the part of C23 the code keeps: when a caller wins the compare-and-swap,
\* every other caller that stands before its own with the same observed
\* timestamp finds a different one there
C23_CasExcludes ==
  [][\A t \in DOMAIN task :
       (task[t].pc = "cas" /\ task'[t].pc = "visit") =>
         \A u \in DOMAIN task \ {t} :
           (task[u].pc = "cas" /\ task[u].last = task[t].last) =>
             last_cleanup' /= task[u].last]_vars
\* two callers have observed the same timestamp, and one of them sweeps
C23_WitnessCas ==
  \E t \in DOMAIN task, u \in DOMAIN task :
    /\ t /= u
    /\ task[t].pc = "visit" /\ task[t].swept
    /\ task[u].pc = "entry" /\ ~task[u].swept
    /\ task[u].last = task[t].last
    /\ task[u].now - task[u].last >= CLEANUP_INTERVAL

\* C25 (as claimed): a timestamp that check has recorded stays in the
\* key's record while it is younger than RATE_LIMIT_WINDOW, whatever a
\* sweep does meanwhile: a sweep removes a key only when the key's list is
\* empty at the moment of the removal.
C25_CountedUntilStale ==
  [][/\ \A k \in DOMAIN requests :
          \A i \in DOMAIN requests[k] :
            now - requests[k][i] < RATE_LIMIT_WINDOW =>
              /\ k \in DOMAIN requests'
              /\ CountAt(requests'[k], requests[k][i])
                   >= CountAt(requests[k], requests[k][i])
     /\ \A k \in DOMAIN requests \ DOMAIN requests' : requests[k] = <<>>
    ]_vars
\* the part of C25 the code keeps: a step that removes no key drops no
\* timestamp younger than the window
C25_PruneKeepsYoung ==
  [][(DOMAIN requests \subseteq DOMAIN requests') =>
       \A k \in DOMAIN requests :
         \A i \in DOMAIN requests[k] :
           now - requests[k][i] < RATE_LIMIT_WINDOW =>
             CountAt(requests'[k], requests[k][i])
               >= CountAt(requests[k], requests[k][i])
    ]_vars
\* a sweep has pruned a record of its stale timestamp and removes the key
C25_WitnessPruned ==
  /\ ret.op = "remove"
  /\ ret.had = <<>>
  /\ ret.key \notin DOMAIN requests

\* ------------------------------------------------------------ SpecBan
\* is_ip_blocked and record_failed_attempt step by step, run by concurrent
\* request tasks of one ip: each request asks is_ip_blocked, as
\* security_middleware does first, and on the answer false is recorded as
\* a failed attempt of the weight of a denylisted path.
BanTasks == {"b1", "b2"}
BanIp == "a"
BanWeight == 3
\* the locals of a task: reqs counts its requests, owed tells that a ban
\* set earlier had not run out when its is_ip_blocked call began
BanIdle == [pc |-> "idle", reqs |-> 0, owed |-> FALSE]

\* a ban of ip, set earlier, has not run out
BanOwed(ip) ==
  ip \in DOMAIN ban_src /\ now < ban_src[ip].at + BLOCK_DURATION_SECS

InitBanSpec ==
  /\ InitState /\ InitConfig /\ InitCache /\ InitGuard /\ InitRL /\ InitWs
  /\ InitClock
  /\ appended = [price |-> <<>>, usd |-> <<>>]
  /\ ret = NoRet
  /\ rl_seq = EmptyMap
  /\ ban_src = EmptyMap
  /\ pending = EmptyMap
  /\ task = [t \in BanTasks |-> BanIdle]
  /\ cg = InitCg
  /\ conn = EmptyMap
  /\ bg = 0
  /\ hb_due = FALSE

\* is_ip_blocked: blocked_ips.get(ip) and the test of the expiry, under the
\* entry's read lock
BanGet(t) ==
  /\ task[t].pc = "idle"
  /\ task[t].reqs < MaxBanReqs
  /\ LET owed == BanOwed(BanIp)
         loc == [task[t] EXCEPT !.reqs = @ + 1, !.owed = owed]
     IN IF BanIp \in DOMAIN blocked_ips
        THEN IF now < blocked_ips[BanIp]
             THEN /\ task' = [task EXCEPT ![t] = loc]
                  /\ ret' = [op |-> "is_ip_blocked", task |-> t, result |-> TRUE,
                             owed |-> owed]
             ELSE /\ task' = [task EXCEPT ![t] = [loc EXCEPT !.pc = "rm_ban"]]
                  /\ ret' = ret
        ELSE /\ task' = [task EXCEPT ![t] = [loc EXCEPT !.pc = "record"]]
             /\ ret' = [op |-> "is_ip_blocked", task |-> t, result |-> FALSE,
                        owed |-> owed]
  /\ UNCHANGED <<stateVars, configVars, cacheVars, guardVars, rlVars, wsVars,
                 clockVars, appended, rl_seq, ban_src, pending, cg, connVars>>

\* is_ip_blocked, after the lock is dropped: blocked_ips.remove(ip)
BanRemove(t) ==
  /\ task[t].pc = "rm_ban"
  /\ blocked_ips' = MapDel(blocked_ips, BanIp)
  /\ task' = [task EXCEPT ![t].pc = "rm_failed"]
  /\ UNCHANGED <<stateVars, configVars, cacheVars, failed_attempts, rlVars,
                 wsVars, clockVars, appended, ret, rl_seq, ban_src, pending, cg,
                 connVars>>

\* is_ip_blocked: failed_attempts.remove(ip), and the answer false
BanRemoveFailed(t) ==
  /\ task[t].pc = "rm_failed"
  /\ failed_attempts' = MapDel(failed_attempts, BanIp)
  /\ task' = [task EXCEPT ![t].pc = "record"]
  /\ ret' = [op |-> "is_ip_blocked", task |-> t, result |-> FALSE,
             owed |-> task[t].owed]
  /\ UNCHANGED <<stateVars, configVars, cacheVars, blocked_ips, rlVars, wsVars,
                 clockVars, appended, rl_seq, ban_src, pending, cg, connVars>>

\* record_failed_attempt, under the lock of the ip's entry: the pushes, the
\* retain and the test of the threshold
BanRecord(t) ==
  /\ task[t].pc = "record"
  /\ LET kept == SelectSeq(FailedOf(failed_attempts, BanIp) \o Copies(BanWeight, now),
                           LAMBDA x : now - x < FAILED_WINDOW)
     IN /\ failed_attempts' = MapPut(failed_attempts, BanIp, kept)
        /\ task' = [task EXCEPT ![t].pc =
                      IF Len(kept) >= MAX_FAILED_ATTEMPTS THEN "block" ELSE "idle"]
  /\ UNCHANGED <<stateVars, configVars, cacheVars, blocked_ips, rlVars, wsVars,
                 clockVars, appended, ret, rl_seq, ban_src, pending, cg,
                 connVars>>

\* record_failed_attempt, after the lock is dropped: block_ip
BanBlock(t) ==
  /\ task[t].pc = "block"
  /\ blocked_ips' = block_ip(blocked_ips, BanIp, BLOCK_DURATION_SECS, now)
  /\ ban_src' = MapPut(ban_src, BanIp, [by |-> "record_failed_attempt", at |-> now])
  /\ task' = [task EXCEPT ![t].pc = "idle"]
  /\ UNCHANGED <<stateVars, configVars, cacheVars, failed_attempts, rlVars,
                 wsVars, clockVars, appended, ret, rl_seq, pending, cg, connVars>>

BanTick == now + BLOCK_DURATION_SECS <= StartTime + MaxBanSpan /\ Tick(BLOCK_DURATION_SECS)

NextBan ==
  \/ \E t \in BanTasks :
       \/ BanGet(t)
       \/ BanRemove(t)
       \/ BanRemoveFailed(t)
       \/ BanRecord(t)
       \/ BanBlock(t)
  \/ BanTick
SpecBan == InitBanSpec /\ [][NextBan]_vars

\* C24 (as claimed): once a ban of ip has been set at time t for d seconds,
\* every is_ip_blocked(ip) call that begins after that and before t + d
\* answers true, whatever other is_ip_blocked calls for the ip do
\* meanwhile, one that read an earlier, expired ban before the new ban was
\* set included.
C24_BanHolds ==
  ret.op = "is_ip_blocked" => (ret.owed => ret.result)
\* the part of C24 the code keeps: the same while only one task has made
\* requests
C24_BanHoldsAlone ==
  (/\ ret.op = "is_ip_blocked"
   /\ \A u \in BanTasks \ {ret.task} : task[u].reqs = 0) =>
    (ret.owed => ret.result)
\* a task's third request finds the ban that its second one set
C24_WitnessAlone ==
  /\ ret.op = "is_ip_blocked"
  /\ ret.owed /\ ret.result
  /\ \A u \in BanTasks \ {ret.task} : task[u].reqs = 0

====
